---- MODULE Spec2Model ----
(***************************************************************************)
(* statediff: a state container (base value, ordered reversible effects,   *)
(* one previous-derived snapshot), a structural JSON differ producing      *)
(* RFC 6902 patches, and a session that fans projected patches out to      *)
(* viewers.                                                                *)
(*                                                                         *)
(* Go strings are sequences of one-character strings, so that key sorting, *)
(* JSON Pointer escaping and decimal formatting are computed.              *)
(* JSON trees (the result of json.Unmarshal into map[string]any) are       *)
(* tagged records: [t |-> "num", n], [t |-> "str", s], [t |-> "arr", a],   *)
(* [t |-> "obj", o] with o a function from keys to trees, [t |-> "null"].  *)
(***************************************************************************)
EXTENDS Integers, Sequences, FiniteSets, Bags, TLC

(***************************************************************************)
(* Bounds of the model                                                     *)
(***************************************************************************)
MaxValue == 1
MaxItems == 2
MaxTime == 2
\* the ticker goroutine calls Tick this many times
MaxTicks == 3
\* ScheduleExpiration, and ScheduleBroadcast, is called this many times
MaxSchedules == 2
\* the clock of the timers runs up to this reading
MaxClock == 5
\* goroutines that run operations of the library side by side
MaxThreads == 3
\* the effect records of a snapshot
MaxMetas == 2
\* the values on a StackEffect
MaxStack == 2
\* the longest map key handed to escapePtr
MaxKey == 3

(***************************************************************************)
(* Strings                                                                 *)
(***************************************************************************)
\* the characters in use, in byte order
Chars == <<"-", "/", "0", "1", "2", "3", "4", "5", "6", "7", "8", "9",
           "a", "b", "c", "d", "e", "h", "i", "l", "m", "n", "r", "s", "t",
           "u", "v", "~">>

OrdOf == [c \in {Chars[i] : i \in 1..Len(Chars)} |-> CHOOSE i \in 1..Len(Chars) : Chars[i] = c]
Ord(c) == OrdOf[c]

RECURSIVE StrLess(_, _)
StrLess(a, b) ==
  IF Len(b) = 0 THEN FALSE
  ELSE IF Len(a) = 0 THEN TRUE
  ELSE IF Head(a) = Head(b) THEN StrLess(Tail(a), Tail(b))
  ELSE Ord(Head(a)) < Ord(Head(b))

\* the order in which range visits a Go map; Go leaves it unspecified and
\* varies it from one loop to the next
VARIABLE iter

\* F of the value of x, with x evaluated once
Once(F(_), x) == CHOOSE r \in {F(v) : v \in {x}} : TRUE

\* the strings of S in increasing order
RECURSIVE Ascending(_)
Ascending(S) ==
  IF S = {} THEN <<>>
  ELSE Once(LAMBDA m : <<m>> \o Ascending(S \ {m}),
            CHOOSE x \in S : \A y \in S \ {x} : StrLess(x, y))

\* for k := range m, with S the keys of m: one of the orders range may take
MapRange(S) ==
  Once(LAMBDA a : IF iter = 0 THEN a ELSE [i \in 1..Len(a) |-> a[Len(a) + 1 - i]],
       Ascending(S))

\* the keys left in the order range gave them
SortStrings_None(keys) == keys

\* sort.Strings
SortStrings(keys) == Once(LAMBDA q : Ascending({q[i] : i \in 1..Len(q)}), keys)

Digits == <<"0", "1", "2", "3", "4", "5", "6", "7", "8", "9">>

\* fmt.Sprintf("%d", n) for n >= 0
RECURSIVE Itoa(_)
Itoa(n) == IF n < 10 THEN <<Digits[n + 1]>>
           ELSE Itoa(n \div 10) \o <<Digits[(n % 10) + 1]>>

IsDigit(c) == \E i \in 1..10 : Digits[i] = c
DigitVal(c) == (CHOOSE i \in 1..10 : Digits[i] = c) - 1

RECURSIVE Atoi(_)
Atoi(s) == IF Len(s) = 0 THEN 0
           ELSE Atoi(SubSeq(s, 1, Len(s) - 1)) * 10 + DigitVal(s[Len(s)])

\* an RFC 6901 array index: digits, no leading zero
IsIndex(s) ==
  /\ Len(s) > 0
  /\ \A i \in 1..Len(s) : IsDigit(s[i])
  /\ (Len(s) > 1 => s[1] # "0")

\* an escapePtr that leaves ~ as it is
RECURSIVE escapePtr_SlashOnly(_)
escapePtr_SlashOnly(s) ==
  IF Len(s) = 0 THEN <<>>
  ELSE (IF Head(s) = "/" THEN <<"~", "1">> ELSE <<Head(s)>>)
         \o escapePtr_SlashOnly(Tail(s))

RECURSIVE escapePtr(_)
escapePtr(s) ==
  IF Len(s) = 0 THEN <<>>
  ELSE (CASE Head(s) = "~" -> <<"~", "0">>
          [] Head(s) = "/" -> <<"~", "1">>
          [] OTHER -> <<Head(s)>>) \o escapePtr(Tail(s))

\* the dual of escapePtr, applied by a client to one path segment
RECURSIVE unescapePtr(_)
unescapePtr(s) ==
  IF Len(s) = 0 THEN <<>>
  ELSE IF Len(s) >= 2 /\ s[1] = "~" /\ s[2] = "1"
         THEN <<"/">> \o unescapePtr(SubSeq(s, 3, Len(s)))
  ELSE IF Len(s) >= 2 /\ s[1] = "~" /\ s[2] = "0"
         THEN <<"~">> \o unescapePtr(SubSeq(s, 3, Len(s)))
  ELSE <<Head(s)>> \o unescapePtr(Tail(s))

\* the segments of a JSON Pointer ("" has none, "/a/b" has two)
RECURSIVE SplitPtr(_)
SplitPtr(p) ==
  IF Len(p) = 0 THEN <<>>
  ELSE LET rest == Tail(p)
           n == IF \E i \in 1..Len(rest) : rest[i] = "/"
                  THEN (CHOOSE i \in 1..Len(rest) :
                          rest[i] = "/" /\ \A j \in 1..(i - 1) : rest[j] # "/") - 1
                  ELSE Len(rest)
       IN <<unescapePtr(SubSeq(rest, 1, n))>> \o SplitPtr(SubSeq(rest, n + 1, Len(rest)))

(***************************************************************************)
(* JSON trees                                                              *)
(***************************************************************************)
Num(n) == [t |-> "num", n |-> n]
Str(s) == [t |-> "str", s |-> s]
Arr(a) == [t |-> "arr", a |-> a]
Obj(o) == [t |-> "obj", o |-> o]
Null == [t |-> "null"]

\* an object without key k
Without(o, k) == [x \in (DOMAIN o) \ {k} |-> o[x]]
\* an object with key k set to v
With(o, k, v) == [x \in (DOMAIN o) \cup {k} |-> IF x = k THEN v ELSE o[x]]

(***************************************************************************)
(* diff.go                                                                 *)
(***************************************************************************)
ArrayReplace == 0
ArrayByIndex == 1
ArrayByKey == 2

OpAdd(path, v) == [op |-> "add", path |-> path, value |-> v]
OpReplace(path, v) == [op |-> "replace", path |-> path, value |-> v]
OpRemove(path) == [op |-> "remove", path |-> path]

Empty(p) == Len(p) = 0

\* fmt.Sprint of a key value
Sprint(v) == CASE v.t = "str" -> v.s
               [] v.t = "num" -> Itoa(v.n)
               [] OTHER -> <<"~">>

\* getKey of diffArraysByKey
HasKey(v, cfg) == v.t = "obj" /\ cfg.KeyField \in DOMAIN v.o
GetKey(v, cfg) == Sprint(v.o[cfg.KeyField])

\* oldIdx / newIdx of diffArraysByKey: key -> last index (0-based) carrying it
KeyIdx(arr, cfg) ==
  LET ks == {GetKey(arr[i], cfg) : i \in {j \in 1..Len(arr) : HasKey(arr[j], cfg)}}
  IN [k \in ks |-> (CHOOSE i \in 1..Len(arr) :
                      /\ HasKey(arr[i], cfg) /\ GetKey(arr[i], cfg) = k
                      /\ \A j \in (i + 1)..Len(arr) :
                            ~(HasKey(arr[j], cfg) /\ GetKey(arr[j], cfg) = k)) - 1]

\* the integers of S in decreasing order
RECURSIVE Descending(_)
Descending(S) ==
  IF S = {} THEN <<>>
  ELSE Once(LAMBDA m : <<m>> \o Descending(S \ {m}),
            CHOOSE x \in S : \A y \in S : y <= x)

\* sort.Sort(sort.Reverse(sort.IntSlice(...)))
SortDesc(q) == Once(LAMBDA r : Descending({r[i] : i \in 1..Len(r)}), q)

RECURSIVE diffMaps(_, _, _, _)
RECURSIVE diffValues(_, _, _, _)
RECURSIVE diffArraysByIndex(_, _, _, _)
RECURSIVE diffArraysByKey(_, _, _, _)
RECURSIVE diffMapsOld(_, _, _, _, _)
RECURSIVE diffIndexCommon(_, _, _, _, _)
RECURSIVE diffKeyNew(_, _, _, _, _, _)

diffArrays(path, old, new, cfg) ==
  CASE cfg.Strategy = ArrayByIndex -> diffArraysByIndex(path, old, new, cfg)
    [] cfg.Strategy = ArrayByKey -> diffArraysByKey(path, old, new, cfg)
    [] OTHER -> IF old # new THEN <<OpReplace(path, Arr(new))>> ELSE <<>>

\* no reflect.DeepEqual shortcut
diffValues_NoEqualCheck(path, old, new, cfg) ==
  IF old.t # new.t THEN <<OpReplace(path, new)>>
  ELSE IF old.t = "obj" THEN diffMaps(path, old.o, new.o, cfg)
  ELSE IF old.t = "arr" THEN diffArrays(path, old.a, new.a, cfg)
  ELSE <<OpReplace(path, new)>>

diffValues(path, old, new, cfg) ==
  IF old = new THEN <<>>
  ELSE IF old.t # new.t THEN <<OpReplace(path, new)>>
  ELSE IF old.t = "obj" THEN diffMaps(path, old.o, new.o, cfg)
  ELSE IF old.t = "arr" THEN diffArrays(path, old.a, new.a, cfg)
  ELSE <<OpReplace(path, new)>>

\* first loop of diffMaps: removed and changed keys, in sorted order
diffMapsOld(path, old, new, cfg, keys) ==
  IF Len(keys) = 0 THEN <<>>
  ELSE LET k == Head(keys)
           kPath == path \o <<"/">> \o escapePtr(k)
       IN (IF k \notin DOMAIN new THEN <<OpRemove(kPath)>>
           ELSE diffValues(kPath, old[k], new[k], cfg))
          \o diffMapsOld(path, old, new, cfg, Tail(keys))

\* the two loops of diffMaps over the sorted keys
diffMapsSorted(path, old, new, cfg, oldKeys, newKeys) ==
  LET added == SelectSeq(newKeys, LAMBDA k : k \notin DOMAIN old)
  IN diffMapsOld(path, old, new, cfg, oldKeys)
     \o [i \in 1..Len(added) |->
           OpAdd(path \o <<"/">> \o escapePtr(added[i]), new[added[i]])]

\* the keys of both maps are collected and sorted once, then looped over
diffMaps(path, old, new, cfg) ==
  Once(LAMBDA keys : diffMapsSorted(path, old, new, cfg, keys[1], keys[2]),
       <<SortStrings(MapRange(DOMAIN old)), SortStrings(MapRange(DOMAIN new))>>)

\* first loop of diffArraysByIndex, from 0-based index i
diffIndexCommon(path, old, new, cfg, i) ==
  LET minLen == IF Len(old) < Len(new) THEN Len(old) ELSE Len(new)
  IN IF i >= minLen THEN <<>>
     ELSE diffValues(path \o <<"/">> \o Itoa(i), old[i + 1], new[i + 1], cfg)
          \o diffIndexCommon(path, old, new, cfg, i + 1)

\* trailing elements removed from the lowest index up
diffArraysByIndex_RemoveAscending(path, old, new, cfg) ==
  LET minLen == IF Len(old) < Len(new) THEN Len(old) ELSE Len(new)
  IN diffIndexCommon(path, old, new, cfg, 0)
     \o [j \in 1..(Len(old) - minLen) |->
           OpRemove(path \o <<"/">> \o Itoa(minLen + j - 1))]
     \o [j \in 1..(Len(new) - minLen) |->
           OpAdd(path \o <<"/", "-">>, new[minLen + j])]

diffArraysByIndex(path, old, new, cfg) ==
  LET minLen == IF Len(old) < Len(new) THEN Len(old) ELSE Len(new)
  IN diffIndexCommon(path, old, new, cfg, 0)
     \o [j \in 1..(Len(old) - minLen) |->
           OpRemove(path \o <<"/">> \o Itoa(Len(old) - j))]
     \o [j \in 1..(Len(new) - minLen) |->
           OpAdd(path \o <<"/", "-">>, new[minLen + j])]

\* the last loop with an add for every element of new without the key
RECURSIVE diffKeyNew_KeylessAdded(_, _, _, _, _, _)
diffKeyNew_KeylessAdded(path, old, new, cfg, oldIdx, ni) ==
  IF ni >= Len(new) THEN <<>>
  ELSE LET v == new[ni + 1]
       IN (IF ~HasKey(v, cfg) THEN <<OpAdd(path \o <<"/", "-">>, v)>>
           ELSE IF GetKey(v, cfg) \notin DOMAIN oldIdx
                  THEN <<OpAdd(path \o <<"/", "-">>, v)>>
           ELSE diffValues(path \o <<"/">> \o Itoa(ni),
                           old[oldIdx[GetKey(v, cfg)] + 1], v, cfg))
          \o diffKeyNew_KeylessAdded(path, old, new, cfg, oldIdx, ni + 1)

\* last loop of diffArraysByKey, from 0-based new index ni
diffKeyNew(path, old, new, cfg, oldIdx, ni) ==
  IF ni >= Len(new) THEN <<>>
  ELSE LET v == new[ni + 1]
       IN (IF ~HasKey(v, cfg) THEN <<>>
           ELSE IF GetKey(v, cfg) \notin DOMAIN oldIdx
                  THEN <<OpAdd(path \o <<"/", "-">>, v)>>
           ELSE diffValues(path \o <<"/">> \o Itoa(ni),
                           old[oldIdx[GetKey(v, cfg)] + 1], v, cfg))
          \o diffKeyNew(path, old, new, cfg, oldIdx, ni + 1)

diffArraysByKey(path, old, new, cfg) ==
  IF cfg.KeyField = <<>> THEN <<OpReplace(path, Arr(new))>>
  ELSE LET oldIdx == KeyIdx(old, cfg)
           newIdx == KeyIdx(new, cfg)
           removed == SelectSeq(MapRange(DOMAIN oldIdx), LAMBDA k : k \notin DOMAIN newIdx)
           removedIndices == SortDesc([j \in 1..Len(removed) |-> oldIdx[removed[j]]])
       IN [j \in 1..Len(removedIndices) |->
             OpRemove(path \o <<"/">> \o Itoa(removedIndices[j]))]
          \o diffKeyNew(path, old, new, cfg, oldIdx, 0)

(***************************************************************************)
(* RFC 6902: what a client does with a patch                               *)
(***************************************************************************)
Err == [t |-> "err"]

InsertAt(a, i, v) == SubSeq(a, 1, i) \o <<v>> \o SubSeq(a, i + 1, Len(a))
RemoveAt(a, i) == SubSeq(a, 1, i) \o SubSeq(a, i + 2, Len(a))
ReplaceAt(a, i, v) == [a EXCEPT ![i + 1] = v]

\* the document after one operation at the location named by segments segs
RECURSIVE ApplyAt(_, _, _)
ApplyAt(doc, segs, o) ==
  IF Len(segs) = 0 THEN
    (IF o.op = "remove" THEN Err ELSE o.value)
  ELSE LET k == Head(segs)
           last == Len(segs) = 1
       IN CASE doc.t = "obj" ->
                 IF last THEN
                   (CASE o.op = "add" -> Obj(With(doc.o, k, o.value))
                      [] o.op = "replace" ->
                           IF k \in DOMAIN doc.o THEN Obj(With(doc.o, k, o.value)) ELSE Err
                      [] OTHER ->
                           IF k \in DOMAIN doc.o THEN Obj(Without(doc.o, k)) ELSE Err)
                 ELSE IF k \notin DOMAIN doc.o THEN Err
                 ELSE LET sub == ApplyAt(doc.o[k], Tail(segs), o)
                      IN IF sub = Err THEN Err ELSE Obj(With(doc.o, k, sub))
            [] doc.t = "arr" ->
                 IF last /\ o.op = "add" /\ k = <<"-">> THEN Arr(Append(doc.a, o.value))
                 ELSE IF ~IsIndex(k) THEN Err
                 ELSE LET i == Atoi(k)
                      IN IF last THEN
                           (CASE o.op = "add" ->
                                   IF i <= Len(doc.a) THEN Arr(InsertAt(doc.a, i, o.value)) ELSE Err
                              [] o.op = "replace" ->
                                   IF i < Len(doc.a) THEN Arr(ReplaceAt(doc.a, i, o.value)) ELSE Err
                              [] OTHER ->
                                   IF i < Len(doc.a) THEN Arr(RemoveAt(doc.a, i)) ELSE Err)
                         ELSE IF i >= Len(doc.a) THEN Err
                         ELSE LET sub == ApplyAt(doc.a[i + 1], Tail(segs), o)
                              IN IF sub = Err THEN Err ELSE Arr(ReplaceAt(doc.a, i, sub))
            [] OTHER -> Err

\* the operations of a patch applied one after another; Err when one fails
RECURSIVE ApplyPatch(_, _)
ApplyPatch(doc, p) ==
  IF doc = Err \/ Len(p) = 0 THEN doc
  ELSE ApplyPatch(ApplyAt(doc, SplitPtr(Head(p).path), Head(p)), Tail(p))

(***************************************************************************)
(* The application type T: TestState{Value, Items []Item, Secret} with     *)
(* json tags value, items (omitempty), secret (omitempty); Item{ID, Data}  *)
(* with tags id, data.                                                     *)
(***************************************************************************)
kValue == <<"v", "a", "l", "u", "e">>
kItems == <<"i", "t", "e", "m", "s">>
kSecret == <<"s", "e", "c", "r", "e", "t">>
kID == <<"i", "d">>
kData == <<"d", "a", "t", "a">>

TestState(v, it, s) == [Value |-> v, Items |-> it, Secret |-> s]
Item(id, d) == [ID |-> id, Data |-> d]
\* the zero value of T
ZeroT == TestState(0, <<>>, <<>>)

\* json.Marshal followed by json.Unmarshal into map[string]any
MarshalItem(it) == Obj((kID :> Str(it.ID)) @@ (kData :> Num(it.Data)))
Marshal(s) ==
  Obj((kValue :> Num(s.Value))
      @@ (IF Len(s.Items) = 0 THEN <<>>
          ELSE (kItems :> Arr([i \in 1..Len(s.Items) |-> MarshalItem(s.Items[i])])))
      @@ (IF Len(s.Secret) = 0 THEN <<>> ELSE (kSecret :> Str(s.Secret))))

\* json.Unmarshal of a tree into a zero T: absent fields keep the zero value
UnmarshalItem(j) ==
  Item(IF kID \in DOMAIN j.o THEN j.o[kID].s ELSE <<>>,
       IF kData \in DOMAIN j.o THEN j.o[kData].n ELSE 0)
Unmarshal(j) ==
  TestState(IF kValue \in DOMAIN j.o THEN j.o[kValue].n ELSE 0,
            IF kItems \in DOMAIN j.o
              THEN [i \in 1..Len(j.o[kItems].a) |-> UnmarshalItem(j.o[kItems].a[i])]
              ELSE <<>>,
            IF kSecret \in DOMAIN j.o THEN j.o[kSecret].s ELSE <<>>)

calcDiff(old, new, cfg) ==
  Once(LAMBDA m : diffMaps(<<>>, m[1].o, m[2].o, cfg), <<Marshal(old), Marshal(new)>>)

\* Patch.JSON / json.Marshal of a patch: the bytes "[", one token per
\* operation, "]"; the empty patch is the two-byte document []
\* of an Op, whose tag of Value is `json:"value,omitempty"`: the member
\* "value" is left out when Value is the nil interface, which is what a
\* remove holds and what JSON null is after json.Unmarshal into any
OpJSON(o) ==
  IF o.op # "remove" /\ o.value = Null THEN [op |-> o.op, path |-> o.path] ELSE o
PatchJSON(p) ==
  <<[c |-> "["]>> \o [i \in 1..Len(p) |-> [o |-> OpJSON(p[i])]] \o <<[c |-> "]"]>>
\* what a client decodes from those bytes
DecodePatch(b) == [i \in 1..(Len(b) - 2) |-> b[i + 1].o]

(***************************************************************************)
(* User code: update functions, effect functions, projections              *)
(***************************************************************************)
ItemNames == <<"a", "b", "c", "d">>
Secrets == {<<>>, <<"h">>}

\* func(*T) passed to Update
UpdateFn(fn, s) ==
  CASE fn.f = "value" -> [s EXCEPT !.Value = fn.arg]
    [] fn.f = "secret" -> [s EXCEPT !.Secret = fn.arg]
    [] fn.f = "push" ->
         IF Len(s.Items) < MaxItems
           THEN [s EXCEPT !.Items = Append(@, Item(<<ItemNames[Len(@) + 1]>>, 1))]
           ELSE s
    [] fn.f = "pop" ->
         IF Len(s.Items) > 1
           THEN [s EXCEPT !.Items = SubSeq(@, 1, Len(@) - 1)]
           ELSE s
    [] OTHER -> s

\* the function of an effect on a value it received by value: ret is the
\* returned value, arg is what the caller's value looks like afterwards
\* (a struct copy shares the backing array of Items)
EffectFn(f, s) ==
  CASE f = "dbl" -> [ret |-> [s EXCEPT !.Value = @ * 2], arg |-> s]
    [] f = "inc" -> [ret |-> [s EXCEPT !.Value = @ + 1], arg |-> s]
    [] f = "nine" -> [ret |-> [s EXCEPT !.Value = 9], arg |-> s]
    [] OTHER -> \* "mut": writes Items[0].Data in place, returns the same slice
         LET m == IF Len(s.Items) > 0 THEN [s EXCEPT !.Items[1].Data = 9] ELSE s
         IN [ret |-> m, arg |-> m]

\* projections: "nil" (no projection), one that blanks Secret in the copy
\* it received, and "own", which like the projection of the README's Quick
\* Start loops over the elements of a slice of the value it received and
\* writes the field of every element that is not the viewer's ("a")
Project(p, s) ==
  IF p = "hide" THEN [s EXCEPT !.Secret = <<>>]
  ELSE IF p = "own"
    THEN [s EXCEPT !.Items = [i \in 1..Len(s.Items) |->
                                IF s.Items[i].ID = <<"a">> THEN s.Items[i]
                                ELSE [s.Items[i] EXCEPT !.Data = 0]]]
  ELSE s

\* what the value the caller passed looks like after project(s): the struct
\* is copied, the backing array of Items is shared with the copy
Projected(p, s) == IF p = "own" THEN Project(p, s) ELSE s

(***************************************************************************)
(* effect.go                                                               *)
(***************************************************************************)
\* Func(id, fn)
Func(id, f) == [id |-> id, kind |-> "func", fn |-> f, expiresAt |-> 0]
\* the TimedEffect struct: startsAt and expiresAt are times (0 is the zero
\* time), TimeFunc is "nil" or "clock", the function that reads the model
\* clock
TimedEffect(id, startsAt, expiresAt, timeFunc, f) ==
  [id |-> id, kind |-> "timed", fn |-> f, startsAt |-> startsAt,
   expiresAt |-> expiresAt, TimeFunc |-> timeFunc]
\* TimedWindow(id, zero, expiresAt, fn) with TimeFunc the model clock;
\* expiresAt = 0 is the zero time: never expires
TimedWindow(id, expiresAt, f) == TimedEffect(id, 0, expiresAt, "clock", f)
\* Toggle(id, fn): enabled from the start
Toggle(id, f) == [id |-> id, kind |-> "toggle", fn |-> f, enabled |-> TRUE]
\* Stack(id, combine): no values
Stack(id, f) == [id |-> id, kind |-> "stack", fn |-> f, values |-> <<>>]

\* the combine function of a StackEffect: the product of the values times
\* Value ("mul"), the number of values added to Value otherwise
RECURSIVE Product(_)
Product(q) == IF Len(q) = 0 THEN 1 ELSE Head(q) * Product(Tail(q))
Combine(f, s, values) ==
  IF f = "mul" THEN [ret |-> [s EXCEPT !.Value = @ * Product(values)], arg |-> s]
  ELSE [ret |-> [s EXCEPT !.Value = @ + Len(values)], arg |-> s]

\* an Expired that reads the clock whether or not TimeFunc is nil
Expired_NoNilCheck(e, t) == e.kind = "timed" /\ e.expiresAt # 0 /\ t > e.expiresAt

\* TimedEffect.Expired; the other kinds do not implement Expirable
Expired(e, t) ==
  Once(LAMBDA x : /\ x.kind = "timed"
                  /\ x.TimeFunc # "nil"
                  /\ x.expiresAt # 0 /\ t > x.expiresAt,
       e)

\* an Active whose window ends before expiresAt
Active_ExclusiveEnd(e, t) ==
  IF e.TimeFunc = "nil" THEN TRUE
  ELSE IF e.startsAt # 0 /\ t < e.startsAt THEN FALSE
  ELSE IF e.expiresAt # 0 /\ t >= e.expiresAt THEN FALSE
  ELSE TRUE

\* TimedEffect.Active
Active(e, t) ==
  IF e.TimeFunc = "nil" THEN TRUE
  ELSE IF e.startsAt # 0 /\ t < e.startsAt THEN FALSE
  ELSE IF e.expiresAt # 0 /\ t > e.expiresAt THEN FALSE
  ELSE TRUE

\* TimedEffect.Started
Started(e, t) ==
  IF e.TimeFunc = "nil" THEN TRUE
  ELSE e.startsAt = 0 \/ ~(t < e.startsAt)

\* TimedEffect.Remaining
Remaining(e, t) ==
  IF e.TimeFunc = "nil" \/ e.expiresAt = 0 THEN 0
  ELSE IF e.expiresAt - t > 0 THEN e.expiresAt - t
  ELSE 0

\* TimedEffect.UntilStart
UntilStart(e, t) ==
  IF e.TimeFunc = "nil" \/ e.startsAt = 0 THEN 0
  ELSE IF e.startsAt - t > 0 THEN e.startsAt - t
  ELSE 0

\* Effect.Apply of the four kinds: a TimedEffect that reads the clock and
\* has not started or has expired, and a ToggleEffect that is disabled,
\* return their input
Apply(e, s, t) ==
  IF /\ e.kind = "timed" /\ e.TimeFunc # "nil"
     /\ \/ e.startsAt # 0 /\ t < e.startsAt
        \/ e.expiresAt # 0 /\ t > e.expiresAt
    THEN [ret |-> s, arg |-> s]
  ELSE IF e.kind = "toggle" /\ ~e.enabled
    THEN [ret |-> s, arg |-> s]
  ELSE IF e.kind = "stack"
    THEN IF Len(e.values) = 0 THEN [ret |-> s, arg |-> s]
         ELSE Combine(e.fn, s, e.values)
  ELSE EffectFn(e.fn, s)

(***************************************************************************)
(* state.go: the State container.  A container value is the record         *)
(* [current, previous, hasPrevi, effects, arrayCfg]; every method maps a   *)
(* container (and the clock reading t of the effects' TimeFunc) to the     *)
(* container after the call (s) and the value returned (r).                *)
(***************************************************************************)
\* New(initial, cfg): previous is the zero T, no effects, no snapshot
New(initial, cfg) ==
  [current |-> initial, previous |-> ZeroT, hasPrevi |-> FALSE,
   effects |-> <<>>, arrayCfg |-> cfg]

\* clone: JSON round trip; shared tells whether the copy still shares the
\* interior (backing arrays) of src
\* a cloner that copies the struct only: Items shares its backing array
clone_Shallow(src) == [val |-> src, shared |-> TRUE]

clone(src) == [val |-> Unmarshal(Marshal(src)), shared |-> FALSE]

\* the loop of withEffects over effects[i..]: result so far, and the value
\* the clone was taken from (src), written through when the copy shares it
RECURSIVE applyEffects(_, _, _, _, _, _)
applyEffects(effs, i, result, src, shared, t) ==
  IF i > Len(effs) THEN [result |-> result, src |-> src]
  ELSE LET a == Apply(effs[i], result, t)
       IN applyEffects(effs, i + 1, a.ret,
                       IF shared THEN [src EXCEPT !.Items = a.arg.Items] ELSE src,
                       shared, t)

\* the effects applied last to first
withEffects_Reversed(s, state, t) ==
  LET c == clone(state)
      n == Len(s.effects)
  IN applyEffects([i \in 1..n |-> s.effects[n + 1 - i]], 1, c.val, state, c.shared, t)

withEffects(s, state, t) ==
  LET c == clone(state)
  IN applyEffects(s.effects, 1, c.val, state, c.shared, t)

Get(s, t) ==
  LET w == withEffects(s, s.current, t)
  IN [s |-> [s EXCEPT !.current = w.src], r |-> w.result]

GetBase(s) == clone(s.current).val

\* the snapshot taken after fn ran
Update_CaptureAfter(s, fn, t) ==
  LET c == UpdateFn(fn, s.current)
      w == withEffects(s, c, t)
  IN [s |-> [s EXCEPT !.previous = w.result, !.hasPrevi = TRUE, !.current = c],
      r |-> TRUE]

Update(s, fn, t) ==
  LET w == withEffects(s, s.current, t)
  IN [s |-> [s EXCEPT !.previous = w.result, !.hasPrevi = TRUE,
                      !.current = UpdateFn(fn, w.src)],
      r |-> TRUE]

Set(s, newState, t) ==
  LET w == withEffects(s, s.current, t)
  IN [s |-> [s EXCEPT !.previous = w.result, !.hasPrevi = TRUE,
                      !.current = clone(newState).val],
      r |-> TRUE]

\* the snapshot taken before the duplicate check
AddEffect_CaptureFirst(s, e, t) ==
  LET w == withEffects(s, s.current, t)
      c == [s EXCEPT !.previous = w.result, !.hasPrevi = TRUE, !.current = w.src]
  IN IF \E i \in 1..Len(s.effects) : s.effects[i].id = e.id
       THEN [s |-> c, r |-> FALSE]
       ELSE [s |-> [c EXCEPT !.effects = Append(@, e)], r |-> TRUE]

\* no duplicate check
AddEffect_NoCheck(s, e, t) ==
  LET w == withEffects(s, s.current, t)
  IN [s |-> [s EXCEPT !.previous = w.result, !.hasPrevi = TRUE,
                      !.current = w.src, !.effects = Append(@, e)],
      r |-> TRUE]

\* r is TRUE for a nil error, FALSE for the duplicate-ID error
AddEffect(s, e, t) ==
  IF \E i \in 1..Len(s.effects) : s.effects[i].id = e.id
    THEN [s |-> s, r |-> FALSE]
    ELSE LET w == withEffects(s, s.current, t)
         IN [s |-> [s EXCEPT !.previous = w.result, !.hasPrevi = TRUE,
                             !.current = w.src,
                             !.effects = Append(@, e)],
             r |-> TRUE]

\* the snapshot taken before the list is searched
RemoveEffect_CaptureFirst(s, id, t) ==
  LET w == withEffects(s, s.current, t)
      c == [s EXCEPT !.previous = w.result, !.hasPrevi = TRUE, !.current = w.src]
      keep == SelectSeq(s.effects, LAMBDA e : e.id # id)
  IN [s |-> [c EXCEPT !.effects = keep], r |-> Len(keep) < Len(s.effects)]

RemoveEffect(s, id, t) ==
  IF \E i \in 1..Len(s.effects) : s.effects[i].id = id
    THEN LET i == CHOOSE j \in 1..Len(s.effects) :
                    /\ s.effects[j].id = id
                    /\ \A k \in 1..(j - 1) : s.effects[k].id # id
             w == withEffects(s, s.current, t)
         IN [s |-> [s EXCEPT !.previous = w.result, !.hasPrevi = TRUE,
                             !.current = w.src,
                             !.effects = SubSeq(@, 1, i - 1) \o SubSeq(@, i + 1, Len(@))],
             r |-> TRUE]
    ELSE [s |-> s, r |-> FALSE]

HasEffect(s, id) == \E i \in 1..Len(s.effects) : s.effects[i].id = id

ClearEffects(s, t) ==
  IF Len(s.effects) > 0
    THEN LET w == withEffects(s, s.current, t)
         IN [s |-> [s EXCEPT !.previous = w.result, !.hasPrevi = TRUE,
                             !.current = w.src, !.effects = <<>>],
             r |-> TRUE]
    ELSE [s |-> s, r |-> FALSE]

\* no early return when there is no snapshot
Diff_NoGuard(s, project, t) ==
  LET w == withEffects(s, s.current, t)
  IN [s |-> [s EXCEPT !.current = w.src],
      r |-> calcDiff(Project(project, s.previous), Project(project, w.result),
                     s.arrayCfg)]

\* the projection applied to the derived state only, not to the snapshot
Diff_ProjectNewOnly(s, project, t) ==
  IF ~s.hasPrevi THEN [s |-> s, r |-> <<>>]
  ELSE LET w == withEffects(s, s.current, t)
       IN [s |-> [s EXCEPT !.current = w.src],
           r |-> calcDiff(s.previous, Project(project, w.result), s.arrayCfg)]

\* r is the patch; the nil patch and the empty patch are both <<>>
Diff(s, project, t) ==
  IF ~s.hasPrevi THEN [s |-> s, r |-> <<>>]
  ELSE LET w == withEffects(s, s.current, t)
       IN [s |-> [s EXCEPT !.current = w.src,
                           !.previous = Projected(project, s.previous)],
           r |-> calcDiff(Project(project, s.previous), Project(project, w.result),
                          s.arrayCfg)]

FullState(s, project, t) ==
  LET w == withEffects(s, s.current, t)
  IN [s |-> [s EXCEPT !.current = w.src], r |-> Project(project, w.result)]

ClearPrevious(s) == [s |-> [s EXCEPT !.hasPrevi = FALSE], r |-> TRUE]

HasChanges(s) == s.hasPrevi

\* the snapshot taken whether or not one is held
CleanupExpired_AlwaysCapture(s, t) ==
  IF ~\E i \in 1..Len(s.effects) : Expired(s.effects[i], t) THEN [s |-> s, r |-> 0]
  ELSE LET w == withEffects(s, s.current, t)
           active == SelectSeq(s.effects, LAMBDA e : ~Expired(e, t))
       IN [s |-> [s EXCEPT !.previous = w.result, !.hasPrevi = TRUE,
                           !.current = w.src, !.effects = active],
           r |-> Len(s.effects) - Len(active)]

\* the loop that filters the list left at the first expired effect
CleanupExpired_FirstOnly(s, t) ==
  IF ~\E i \in 1..Len(s.effects) : Expired(s.effects[i], t) THEN [s |-> s, r |-> 0]
  ELSE LET w == withEffects(s, s.current, t)
           s1 == IF ~s.hasPrevi
                   THEN [s EXCEPT !.previous = w.result, !.hasPrevi = TRUE,
                                  !.current = w.src]
                   ELSE s
           first == CHOOSE i \in 1..Len(s.effects) :
                      /\ Expired(s.effects[i], t)
                      /\ \A j \in 1..(i - 1) : ~Expired(s.effects[j], t)
       IN [s |-> [s1 EXCEPT !.effects = RemoveAt(s.effects, first - 1)], r |-> 1]

\* r is the number of effects removed
CleanupExpired(s, t) ==
  IF Len(s.effects) = 0 THEN [s |-> s, r |-> 0]
  ELSE IF ~\E i \in 1..Len(s.effects) : Expired(s.effects[i], t) THEN [s |-> s, r |-> 0]
  ELSE LET w == withEffects(s, s.current, t)
           s1 == IF ~s.hasPrevi
                   THEN [s EXCEPT !.previous = w.result, !.hasPrevi = TRUE,
                                  !.current = w.src]
                   ELSE s
           active == SelectSeq(s.effects, LAMBDA e : ~Expired(e, t))
       IN [s |-> [s1 EXCEPT !.effects = active],
           r |-> Len(s.effects) - Len(active)]

(***************************************************************************)
(* session.go: the Session over a State and a client map.  cl maps every   *)
(* client ID to "none" (not in the map), "nil" (connected without a        *)
(* projection) or the name of its projection.                              *)
(***************************************************************************)
ClientIDs == {"c1", "c2"}
Projections == {"nil", "hide"}

Connect(cl, id, project) == [cl EXCEPT ![id] = project]
Disconnect(cl, id) == [cl EXCEPT ![id] = "none"]
IsConnected(cl, id) == cl[id] # "none"

\* s.clients[id]: the zero value (nil) for an ID that is not in the map
projectionOf(cl, id) == IF cl[id] = "none" THEN "nil" ELSE cl[id]

\* r is the marshalled one-element patch
Full(s, cl, id, t) ==
  LET f == FullState(s, projectionOf(cl, id), t)
  IN [s |-> f.s, r |-> PatchJSON(<<OpReplace(<<>>, Marshal(f.r))>>)]

SessionDiff(s, cl, id, t) ==
  LET d == Diff(s, projectionOf(cl, id), t)
  IN [s |-> d.s, r |-> IF Empty(d.r) THEN PatchJSON(<<>>) ELSE PatchJSON(d.r)]

\* the result map of Broadcast and Tick: isNil for the nil map, else m maps
\* the IDs that are present to their bytes
NilMap == [isNil |-> TRUE, m |-> <<>>]

\* the cached full diff handed to the first client without a projection only
Broadcast_CacheFirstOnly(s, cl, t) ==
  IF ~HasChanges(s) THEN [s |-> s, r |-> NilMap]
  ELSE LET conn == {id \in ClientIDs : cl[id] # "none"}
           fullDiff == Diff(s, "nil", t).r
           first(id) == id = CHOOSE o \in conn : cl[o] = "nil"
           data(id) == IF cl[id] = "nil"
                         THEN (IF first(id) THEN fullDiff ELSE <<>>)
                         ELSE Diff(s, cl[id], t).r
           present == {id \in conn : ~Empty(data(id))}
       IN [s |-> IF conn = {} THEN s ELSE Diff(s, "nil", t).s,
           r |-> [isNil |-> FALSE, m |-> [id \in present |-> PatchJSON(data(id))]]]

\* clients with an empty patch kept in the result
Broadcast_KeepEmpty(s, cl, t) ==
  IF ~HasChanges(s) THEN [s |-> s, r |-> NilMap]
  ELSE LET conn == {id \in ClientIDs : cl[id] # "none"}
       IN [s |-> IF conn = {} THEN s ELSE Diff(s, "nil", t).s,
           r |-> [isNil |-> FALSE,
                  m |-> [id \in conn |-> PatchJSON(Diff(s, cl[id], t).r)]]]

\* ds holds s.state.Diff(project) for nil and for each projection in use
Broadcast(s, cl, t) ==
  IF ~HasChanges(s) THEN [s |-> s, r |-> NilMap]
  ELSE Once(LAMBDA ds :
              LET conn == {id \in ClientIDs : cl[id] # "none"}
                  \* computed once and shared by the clients with a nil projection
                  fullDiff == (CHOOSE x \in ds : x.project = "nil").d
                  data(id) == IF cl[id] = "nil" THEN fullDiff.r
                              ELSE (CHOOSE x \in ds : x.project = cl[id]).d.r
                  present == {id \in conn : ~Empty(data(id))}
              IN [s |-> IF conn = {} THEN s ELSE fullDiff.s,
                  r |-> [isNil |-> FALSE,
                         m |-> [id \in present |-> PatchJSON(data(id))]]],
            {[project |-> p, d |-> Diff(s, p, t)] :
               p \in ({"nil"} \cup {cl[id] : id \in ClientIDs}) \ {"none"}})

\* Broadcast before CleanupExpired
Tick_BroadcastFirst(s, cl, t) ==
  LET b == Broadcast(s, cl, t)
      c == CleanupExpired(b.s, t)
  IN [s |-> ClearPrevious(c.s).s, r |-> b.r]

Tick(s, cl, t) ==
  Once(LAMBDA b : [s |-> ClearPrevious(b.s).s, r |-> b.r],
       Broadcast(CleanupExpired(s, t).s, cl, t))

\* the calls fn makes on its Tx, one after another
RECURSIVE runTx(_, _, _)
runTx(s, calls, t) ==
  IF Len(calls) = 0 THEN s
  ELSE runTx(IF Head(calls).call = "Update"
               THEN Update(s, Head(calls).arg, t).s
               ELSE Set(s, Head(calls).arg, t).s,
             Tail(calls), t)

Transaction(s, cl, calls, t) == Tick(runTx(s, calls, t), cl, t)

ApplyUpdate(s, cl, fn, t) == Tick(Update(s, fn, t).s, cl, t)

(***************************************************************************)
(* The state machine: one State, one Session over it, the clock read by    *)
(* the effects' TimeFunc, and the documents the viewers hold.              *)
(***************************************************************************)
VARIABLES
  current,   \* State.current: the base
  previous,  \* State.previous: the snapshot of the derived state
  hasPrevi,  \* State.hasPrevi
  effects,   \* State.effects
  arrayCfg,  \* State.arrayCfg
  clients,   \* Session.clients
  now,       \* the reading of the clock
  doc,       \* the document the viewer of client Viewer holds, or NoDoc;
             \* Unfollowed in the runs that follow no viewer
  caps,      \* capturing operations since the last Tick (counted up to 2)
  op,        \* the last call that changed the State or failed, or "Advance"
  ret,       \* what that call returned
  calc,      \* one call of the diff engine: its arguments, the patch it
             \* returned and the copy of old a client applies the patch to
  tick,      \* the goroutine that calls Session.Tick: where it is in the
             \* call and the result it holds
  expire,    \* a TimedEffect's expireTimer, its timers and their goroutines
  debounce,  \* the Session's debounceTimer, its timers and their goroutines
  locks      \* the goroutines that run the operations side by side: the
             \* operation of each and how far it is in taking its locks

vars == <<current, previous, hasPrevi, effects, arrayCfg, clients, now, doc, caps, op, ret,
          iter, calc, tick, expire, debounce, locks>>

\* what the calls on the State and the Session leave alone
diffVars == <<iter, calc>>
goVars == <<tick, expire, debounce, locks>>
\* no call of the diff engine on its own
Idle == [idle |-> TRUE]

\* the container the variables hold
S == [current |-> current, previous |-> previous, hasPrevi |-> hasPrevi,
      effects |-> effects, arrayCfg |-> arrayCfg]

Install(s) ==
  \E v \in {s} :
    /\ current' = v.current
    /\ previous' = v.previous
    /\ hasPrevi' = v.hasPrevi
    /\ effects' = v.effects
    /\ arrayCfg' = v.arrayCfg

NoRet == [none |-> TRUE]
NoDoc == [t |-> "nodoc"]
Unfollowed == [t |-> "unfollowed"]
\* the client whose viewer the model follows
Viewer == "c1"

\* the configurations passed to New
Cfgs == {[Strategy |-> ArrayReplace, KeyField |-> <<>>],
         [Strategy |-> ArrayByIndex, KeyField |-> <<>>],
         [Strategy |-> ArrayByKey, KeyField |-> kID]}

\* the inputs of the container specification (Spec): base values without
\* items or secret, three effect IDs, function effects and a timed one
EffectIDs == {"e1", "e2", "e3"}
EffectChoices ==
  {Func("e1", "dbl"), Func("e1", "inc"), Func("e2", "inc")}
  \cup {TimedWindow("e3", x, "nine") : x \in 1..(MaxTime - 1)}
ValueFns == {[f |-> "value", arg |-> v] : v \in 0..MaxValue} \cup {[f |-> "noop", arg |-> 0]}
ValueStates == {TestState(v, <<>>, <<>>) : v \in 0..MaxValue}

\* the inputs of the session specification (SessionSpec): every base value,
\* one effect ID
SessionEffectChoices == {TimedWindow("e1", x, "mut") : x \in 1..(MaxTime - 1)}
SessionFns ==
  {[f |-> "secret", arg |-> x] : x \in Secrets}
  \cup {[f |-> "push", arg |-> 0], [f |-> "pop", arg |-> 0]}
SessionStates ==
  {TestState(1, [i \in 1..n |-> Item(<<ItemNames[i]>>, 1)], x) :
     n \in 1..MaxItems, x \in Secrets}
SetStates == {TestState(1, <<Item(<<"a">>, 1)>>, <<>>)}
SessionCfgs == {[Strategy |-> ArrayReplace, KeyField |-> <<>>],
                [Strategy |-> ArrayByIndex, KeyField |-> <<>>]}
\* the projections each client connects with
ProjectionsOf == [id \in ClientIDs |-> IF id = "c1" THEN Projections ELSE {"nil"}]
\* the calls a transaction function makes on its Tx
TxCalls ==
  {[call |-> "Update", arg |-> [f |-> "push", arg |-> 0]],
   [call |-> "Update", arg |-> [f |-> "secret", arg |-> <<"h">>]],
   [call |-> "Set", arg |-> TestState(1, <<Item(<<"a">>, 1)>>, <<>>)]}
TxBodies ==
  {<<a>> : a \in TxCalls}
  \cup {p \in TxCalls \X TxCalls : p[1] # p[2]}

NewState(initials, cfgs) ==
  \E initial \in initials, cfg \in cfgs :
    /\ current = New(initial, cfg).current
    /\ previous = New(initial, cfg).previous
    /\ hasPrevi = New(initial, cfg).hasPrevi
    /\ effects = New(initial, cfg).effects
    /\ arrayCfg = New(initial, cfg).arrayCfg

\* no goroutine besides the caller's
NoGo == tick = Idle /\ expire = Idle /\ debounce = Idle /\ locks = Idle

InitState(initials, cfgs, d) ==
  /\ NewState(initials, cfgs)
  /\ clients = [id \in ClientIDs |-> "none"]
  /\ now = 1
  /\ doc = d
  /\ caps = 0
  /\ op = "New"
  /\ ret = NoRet

InitWith(initials, cfgs, d) ==
  /\ InitState(initials, cfgs, d)
  /\ NoGo
  /\ iter = 0
  /\ calc = Idle

Init == InitWith(ValueStates, Cfgs, Unfollowed)
SessionInit == InitWith(SessionStates, SessionCfgs, Unfollowed)
ViewerInit == InitWith(SessionStates, SessionCfgs, NoDoc)

\* the derived state: what Get returns
Derived == Get(S, now).r

\* a viewer applies the bytes it was sent; a patch that fails leaves its
\* document as it was
ViewerApply(d, bytes) ==
  LET a == ApplyPatch(d, DecodePatch(bytes))
  IN IF a = Err THEN d ELSE a

\* the viewer's document and the count of captures, in a run that follows
\* the viewer
Followed(d) == IF doc = Unfollowed THEN Unfollowed ELSE d
Counted(c) == IF doc = Unfollowed THEN caps ELSE c

\* one more capturing operation: a second one before the next Tick ends
\* the viewers' one-operation-per-Tick run
Captured(n) ==
  /\ caps' = Counted(IF caps + n > 2 THEN 2 ELSE caps + n)
  /\ doc' = Followed(IF caps + n > 1 THEN NoDoc ELSE doc)

\* the viewers after a Tick that returned result r with n further captures
\* made by the same call
Ticked(r, n) ==
  /\ caps' = Counted(0)
  /\ doc' = Followed(IF caps + n # 1 THEN NoDoc
                     ELSE IF doc # NoDoc /\ ~r.isNil /\ Viewer \in DOMAIN r.m
                            THEN ViewerApply(doc, r.m[Viewer])
                            ELSE doc)

CallUpdate(fn) ==
  /\ op' = "Update" /\ ret' = NoRet
  /\ UNCHANGED <<diffVars, goVars, clients, now>>
  /\ Captured(1)
  /\ Install(Update(S, fn, now).s)

CallSet(newState) ==
  /\ op' = "Set" /\ ret' = NoRet
  /\ UNCHANGED <<diffVars, goVars, clients, now>>
  /\ Captured(1)
  /\ Install(Set(S, newState, now).s)

CallAddEffect(e) ==
  \E a \in {AddEffect(S, e, now)} :
     /\ op' = "AddEffect" /\ ret' = a.r
     /\ UNCHANGED <<diffVars, goVars, clients, now>>
     /\ Captured(IF a.r THEN 1 ELSE 0)
     /\ Install(a.s)

\* a call that finds nothing to remove leaves everything as it was
CallRemoveEffect(id) ==
  \E a \in {RemoveEffect(S, id, now)} :
     IF a.r
         THEN /\ op' = "RemoveEffect" /\ ret' = a.r
              /\ UNCHANGED <<diffVars, goVars, clients, now>>
              /\ Captured(1)
              /\ Install(a.s)
         ELSE UNCHANGED vars

CallClearEffects ==
  \E a \in {ClearEffects(S, now)} :
     IF a.r
         THEN /\ op' = "ClearEffects" /\ ret' = NoRet
              /\ UNCHANGED <<diffVars, goVars, clients, now>>
              /\ Captured(1)
              /\ Install(a.s)
         ELSE UNCHANGED vars

CallCleanupExpired ==
  \E a \in {CleanupExpired(S, now)} :
     IF a.r > 0
         THEN /\ op' = "CleanupExpired" /\ ret' = a.r
              /\ UNCHANGED <<diffVars, goVars, clients, now>>
              /\ Captured(IF ~hasPrevi THEN 1 ELSE 0)
              /\ Install(a.s)
         ELSE UNCHANGED vars

CallClearPrevious ==
  IF hasPrevi
    THEN /\ op' = "ClearPrevious" /\ ret' = NoRet
         /\ UNCHANGED <<diffVars, goVars, clients, now, caps>>
         /\ doc' = Followed(NoDoc)
         /\ Install(ClearPrevious(S).s)
    ELSE UNCHANGED vars

CallGet ==
  /\ UNCHANGED <<diffVars, goVars, clients, now, doc, caps, op, ret>>
  /\ Install(Get(S, now).s)

CallDiff(project) ==
  /\ UNCHANGED <<diffVars, goVars, clients, now, doc, caps, op, ret>>
  /\ Install(Diff(S, project, now).s)

CallConnect(id, project) ==
  /\ UNCHANGED <<diffVars, goVars, current, previous, hasPrevi, effects, arrayCfg, now, caps, op, ret>>
  /\ clients' = Connect(clients, id, project)
  /\ doc' = Followed(IF id = Viewer THEN NoDoc ELSE doc)

CallDisconnect(id) ==
  /\ UNCHANGED <<diffVars, goVars, current, previous, hasPrevi, effects, arrayCfg, now, caps, op, ret>>
  /\ clients' = Disconnect(clients, id)
  /\ doc' = Followed(IF id = Viewer THEN NoDoc ELSE doc)

\* Full(id), and the viewer of a connected id taking the result as its document
CallFull(id) ==
  \E f \in {Full(S, clients, id, now)} :
     /\ UNCHANGED <<diffVars, goVars, clients, now, caps, op, ret>>
     /\ doc' = Followed(IF id = Viewer /\ IsConnected(clients, id)
                          THEN ViewerApply(Null, f.r)
                          ELSE doc)
     /\ Install(f.s)

CallSessionDiff(id) ==
  /\ UNCHANGED <<diffVars, goVars, clients, now, doc, caps, op, ret>>
  /\ Install(SessionDiff(S, clients, id, now).s)

CallBroadcast ==
  \E b \in {Broadcast(S, clients, now)} :
     /\ UNCHANGED <<diffVars, goVars, clients, now, doc, caps, op, ret>>
     /\ Install(b.s)

CallTick ==
  \E k \in {Tick(S, clients, now)} :
     /\ op' = "Tick" /\ ret' = k.r
     /\ UNCHANGED <<diffVars, goVars, clients, now>>
     /\ Ticked(k.r, IF CleanupExpired(S, now).r > 0 /\ ~hasPrevi THEN 1 ELSE 0)
     /\ Install(k.s)

CallTransaction(calls) ==
  \E k \in {Transaction(S, clients, calls, now)} :
     /\ op' = "Transaction" /\ ret' = k.r
     /\ UNCHANGED <<diffVars, goVars, clients, now>>
     /\ Ticked(k.r, Len(calls))
     /\ Install(k.s)

CallApplyUpdate(fn) ==
  \E k \in {ApplyUpdate(S, clients, fn, now)} :
     /\ op' = "ApplyUpdate" /\ ret' = k.r
     /\ UNCHANGED <<diffVars, goVars, clients, now>>
     /\ Ticked(k.r, 1)
     /\ Install(k.s)

\* time passes; an effect that expires changes its output without any call
Advance ==
  /\ now < MaxTime
  /\ now' = now + 1
  /\ doc' = Followed(IF \E i \in 1..Len(effects) :
                           ~Expired(effects[i], now) /\ Expired(effects[i], now + 1)
                       THEN NoDoc ELSE doc)
  /\ op' = "Advance" /\ ret' = NoRet
  /\ UNCHANGED <<diffVars, goVars, current, previous, hasPrevi, effects, arrayCfg, clients, caps>>

\* the State container on its own
Next ==
  \/ \E fn \in ValueFns : CallUpdate(fn)
  \/ \E v \in ValueStates : CallSet(v)
  \/ \E e \in EffectChoices : CallAddEffect(e)
  \/ \E id \in EffectIDs : CallRemoveEffect(id)
  \/ CallClearEffects
  \/ CallCleanupExpired
  \/ CallClearPrevious
  \/ CallGet
  \/ CallDiff("nil")
  \/ Advance

Spec == Init /\ [][Next]_vars

\* the Session and its State
SessionNext ==
  \/ \E fn \in SessionFns : CallUpdate(fn)
  \/ \E v \in SetStates : CallSet(v)
  \/ \E e \in SessionEffectChoices : CallAddEffect(e)
  \/ CallRemoveEffect("e1")
  \/ CallClearEffects
  \/ CallCleanupExpired
  \/ CallClearPrevious
  \/ CallGet
  \/ \E p \in Projections : CallDiff(p)
  \/ \E id \in ClientIDs : \E p \in ProjectionsOf[id] : CallConnect(id, p)
  \/ \E id \in ClientIDs : CallDisconnect(id)
  \/ \E id \in ClientIDs : CallFull(id)
  \/ \E id \in ClientIDs : CallSessionDiff(id)
  \/ CallBroadcast
  \/ CallTick
  \/ \E calls \in TxBodies : CallTransaction(calls)
  \/ \E fn \in SessionFns : CallApplyUpdate(fn)
  \/ Advance

SessionSpec == SessionInit /\ [][SessionNext]_vars

\* a viewer of the Session: it connects, takes Full as its document and
\* applies what every Tick returns for it
ViewerNext ==
  \/ \E fn \in SessionFns : CallUpdate(fn)
  \/ \E v \in SetStates : CallSet(v)
  \/ \E e \in SessionEffectChoices : CallAddEffect(e)
  \/ CallRemoveEffect("e1")
  \/ CallClearEffects
  \/ \E p \in Projections : CallConnect(Viewer, p)
  \/ CallDisconnect(Viewer)
  \/ CallFull(Viewer)
  \/ CallTick
  \/ Advance

ViewerSpec == ViewerInit /\ [][ViewerNext]_vars

\* the State with timed effects of every shape: a start in the future or
\* none, an expiry in the past or none, TimeFunc nil or the clock
WindowFns == [e1 |-> "nine", e2 |-> "inc"]
WindowChoices ==
  {TimedEffect(id, startsAt, expiresAt, timeFunc, WindowFns[id]) :
     id \in {"e1", "e2"}, startsAt \in {0, MaxTime + 1},
     expiresAt \in 0..(MaxTime - 1), timeFunc \in {"nil", "clock"}}
  \cup {Func("e3", "dbl")}

WindowNext ==
  \/ \E fn \in ValueFns : CallUpdate(fn)
  \/ \E e \in WindowChoices : CallAddEffect(e)
  \/ \E id \in EffectIDs : CallRemoveEffect(id)
  \/ CallCleanupExpired
  \/ CallClearPrevious
  \/ CallGet
  \/ CallDiff("nil")
  \/ Advance

WindowSpec == Init /\ [][WindowNext]_vars

\* a viewer of a State whose effect expires: time passes and the viewer
\* keeps its document; ret holds the last call before the clock moved and
\* the reading of the clock at that call
ExpiryChoices == {TimedWindow("e1", x, "dbl") : x \in 1..(MaxTime - 1)}

Elapse ==
  /\ now < MaxTime
  /\ now' = now + 1
  /\ op' = "Elapse"
  /\ ret' = IF op = "Elapse" THEN ret ELSE [before |-> op, since |-> now]
  /\ UNCHANGED <<diffVars, goVars, current, previous, hasPrevi, effects, arrayCfg,
                 clients, doc, caps>>

ExpiryNext ==
  \/ \E fn \in SessionFns : CallUpdate(fn)
  \/ \E e \in ExpiryChoices : CallAddEffect(e)
  \/ \E p \in Projections : CallConnect(Viewer, p)
  \/ CallDisconnect(Viewer)
  \/ CallFull(Viewer)
  \/ CallTick
  \/ Elapse

ExpirySpec == ViewerInit /\ [][ExpiryNext]_vars

\* a State with a StackEffect and a ToggleEffect.  Their mutators change
\* the effect the State's list refers to and never call the State; ret
\* holds the derived state read just before the mutator ran
StatefulChoices == {Stack("e1", "mul"), Toggle("e2", "inc")}
PushValues == {2}
Registered(id, kind) ==
  {i \in 1..Len(effects) : effects[i].id = id /\ effects[i].kind = kind}
Mutated(name, effs) ==
  /\ op' = name
  /\ ret' = [before |-> Derived]
  /\ effects' = effs
  /\ UNCHANGED <<diffVars, goVars, current, previous, hasPrevi, arrayCfg,
                 clients, now, doc, caps>>

\* StackEffect.Push
Push(id, v) ==
  \E i \in Registered(id, "stack") :
    /\ Len(effects[i].values) < MaxStack
    /\ Mutated("Push", [effects EXCEPT ![i].values = Append(@, v)])

\* StackEffect.Pop
Pop(id) ==
  \E i \in Registered(id, "stack") :
    IF Len(effects[i].values) = 0
      THEN UNCHANGED vars
      ELSE Mutated("Pop", [effects EXCEPT ![i].values = SubSeq(@, 1, Len(@) - 1)])

\* ToggleEffect.Enable
Enable(id) ==
  \E i \in Registered(id, "toggle") :
    Mutated("Enable", [effects EXCEPT ![i].enabled = TRUE])

\* ToggleEffect.Disable
Disable(id) ==
  \E i \in Registered(id, "toggle") :
    Mutated("Disable", [effects EXCEPT ![i].enabled = FALSE])

StatefulNext ==
  \/ \E fn \in ValueFns : CallUpdate(fn)
  \/ \E e \in StatefulChoices : CallAddEffect(e)
  \/ \E v \in PushValues : Push("e1", v)
  \/ Pop("e1")
  \/ Enable("e2")
  \/ Disable("e2")
  \/ CallConnect(Viewer, "nil")
  \/ CallDiff("nil")
  \/ CallTick

StatefulSpec == Init /\ [][StatefulNext]_vars

\* the mutating calls made whether or not they find something to do: op
\* and ret tell which call ran last and what it returned
TryRemoveEffect(id) ==
  LET a == RemoveEffect(S, id, now)
  IN /\ op' = "RemoveEffect" /\ ret' = a.r
     /\ UNCHANGED <<diffVars, goVars, clients, now, doc, caps>>
     /\ Install(a.s)

TryClearEffects ==
  /\ op' = "ClearEffects" /\ ret' = Len(effects)
  /\ UNCHANGED <<diffVars, goVars, clients, now, doc, caps>>
  /\ Install(ClearEffects(S, now).s)

TryCleanupExpired ==
  LET a == CleanupExpired(S, now)
  IN /\ op' = "CleanupExpired" /\ ret' = a.r
     /\ UNCHANGED <<diffVars, goVars, clients, now, doc, caps>>
     /\ Install(a.s)

NoopNext ==
  \/ \E fn \in ValueFns : CallUpdate(fn)
  \/ \E e \in EffectChoices : CallAddEffect(e)
  \/ \E id \in EffectIDs : TryRemoveEffect(id)
  \/ TryClearEffects
  \/ TryCleanupExpired
  \/ CallClearPrevious
  \/ Advance

NoopSpec == Init /\ [][NoopNext]_vars

(***************************************************************************)
(* Persistence: Save writes the base and the effect records to a file,     *)
(* Restore builds a State from the file and asks the factory for the       *)
(* effect of every record.  The file is held in ret; after Restore the     *)
(* container is the restored State.                                        *)
(***************************************************************************)
\* MakeEffectMeta(id, type, nil)
MakeEffectMeta(id, type) == [ID |-> id, Type |-> type]
MetaTypes == {"dbl", "unknown", "skip"}
MetaChoices == {MakeEffectMeta(id, type) : id \in {"e1", "e2"}, type \in MetaTypes}
MetaLists == UNION {[1..n -> MetaChoices] : n \in 0..MaxMetas}

\* no effect: the nil a factory returns
NilEffect == [nil |-> TRUE]
\* the factories of the tests: "none" is no factory, "byType" returns an
\* error for an unknown type, nil for a record to skip, else a FuncEffect
Factories == {"none", "byType"}
Factory(f, meta) ==
  CASE meta.Type = "unknown" -> [e |-> NilEffect, err |-> TRUE]
    [] meta.Type = "skip" -> [e |-> NilEffect, err |-> FALSE]
    [] OTHER -> [e |-> Func(meta.ID, meta.Type), err |-> FALSE]

\* Save: the snapshot record, marshalled
Save(s, metas) == [state |-> Marshal(GetBase(s)), effects |-> metas]

\* the loop of Restore over the records from the i-th on
RECURSIVE restoreEffects(_, _, _, _, _, _)
restoreEffects(s, metas, i, f, errs, t) ==
  IF i > Len(metas) THEN [State |-> s, EffectErrors |-> errs]
  ELSE LET made == Factory(f, metas[i])
           added == AddEffect(s, made.e, t)
       IN IF made.err
            THEN restoreEffects(s, metas, i + 1, f, Append(errs, [ID |-> metas[i].ID, err |-> "factory"]), t)
          ELSE IF made.e = NilEffect
            THEN restoreEffects(s, metas, i + 1, f, errs, t)
          ELSE IF ~added.r
            THEN restoreEffects(s, metas, i + 1, f, Append(errs, [ID |-> metas[i].ID, err |-> "add"]), t)
          ELSE restoreEffects(added.s, metas, i + 1, f, errs, t)

\* a Restore that returns at the first record that fails
Restore_AbortOnError(file, cfg, f, t) ==
  LET s == New(Unmarshal(file.state), cfg)
      r == restoreEffects(s, file.effects, 1, f, <<>>, t)
  IN IF f # "none" /\ Len(r.EffectErrors) > 0
       THEN [err |-> TRUE, State |-> s, EffectErrors |-> <<>>]
       ELSE [err |-> FALSE, State |-> r.State, EffectErrors |-> r.EffectErrors]

\* Restore(path, config, factory) on the file Save wrote
Restore(file, cfg, f, t) ==
  LET s == New(Unmarshal(file.state), cfg)
  IN IF f = "none"
       THEN [err |-> FALSE, State |-> s, EffectErrors |-> <<>>]
       ELSE [err |-> FALSE] @@ restoreEffects(s, file.effects, 1, f, <<>>, t)

Saved == op \in {"Save", "Restore"}

CallSave(metas) ==
  /\ op' = "Save"
  /\ ret' = [file |-> Save(S, metas), base |-> current]
  /\ UNCHANGED <<diffVars, goVars, clients, now, doc, caps>>
  /\ UNCHANGED <<current, previous, hasPrevi, effects, arrayCfg>>

\* the process starts again from the file
CallRestore(f) ==
  /\ Saved
  /\ LET r == Restore(ret.file, arrayCfg, f, now)
     IN /\ op' = "Restore"
        /\ ret' = [file |-> ret.file, base |-> ret.base, factory |-> f,
                   err |-> r.err, EffectErrors |-> r.EffectErrors]
        /\ Install(r.State)
  /\ UNCHANGED <<diffVars, goVars, clients, now, doc, caps>>

RestoreNext ==
  \/ \E fn \in ValueFns : CallUpdate(fn)
  \/ \E e \in EffectChoices : CallAddEffect(e)
  \/ \E metas \in MetaLists : CallSave(metas)
  \/ \E f \in Factories : CallRestore(f)

RestoreSpec == Init /\ [][RestoreNext]_vars

(***************************************************************************)
(* The diff engine on its own: a caller passes two JSON objects and an     *)
(* ArrayConfig to the engine, a client applies the operations of the patch *)
(* one after another to a copy of old, and the engine is run a second time *)
(* on the same arguments.  A second kind of run has no such call and       *)
(* drives a State instead.                                                 *)
(***************************************************************************)
kNested == <<"a", "/", "~">>
DiffElems == {MarshalItem(Item(<<"a">>, 1)), MarshalItem(Item(<<"a">>, 2)),
              MarshalItem(Item(<<"b">>, 1))}
DiffArrays == UNION {[1..n -> DiffElems] : n \in 0..MaxItems}
DiffValues == {Num(1), Obj(kNested :> Num(1)), Obj(kNested :> Num(2))}
DiffDocs ==
  {Obj(v @@ a) : v \in {<<>>} \cup {kValue :> x : x \in DiffValues},
                 a \in {<<>>} \cup {kItems :> Arr(x) : x \in DiffArrays}}
DiffCfgs == {[Strategy |-> ArrayReplace, KeyField |-> <<>>],
             [Strategy |-> ArrayByIndex, KeyField |-> <<>>],
             [Strategy |-> ArrayByKey, KeyField |-> kID],
             [Strategy |-> ArrayByKey, KeyField |-> kData],
             [Strategy |-> ArrayByKey, KeyField |-> <<>>]}

DiffInit ==
  \/ InitWith(SessionStates, Cfgs, Unfollowed)
  \/ /\ InitState({ZeroT}, {[Strategy |-> ArrayReplace, KeyField |-> <<>>]}, Unfollowed)
     /\ NoGo
     /\ iter = 0
     /\ \E old \in DiffDocs, new \in DiffDocs, cfg \in DiffCfgs :
          calc = [old |-> old, new |-> new, cfg |-> cfg, phase |-> "args",
                  patch |-> <<>>, doc |-> Null, k |-> 0, again |-> <<>>]

stateVars == <<current, previous, hasPrevi, effects, arrayCfg, clients, now, doc, caps, op, ret>>

\* the engine runs on the arguments; the client starts from a copy of old;
\* the next range over a map takes whichever order the runtime picks
CallDiffMaps ==
  /\ calc # Idle /\ calc.phase = "args"
  /\ calc' = [calc EXCEPT !.phase = "diffed",
                          !.patch = diffMaps(<<>>, calc.old.o, calc.new.o, calc.cfg),
                          !.doc = calc.old]
  /\ iter' \in {0, 1}
  /\ UNCHANGED <<stateVars, goVars>>

\* the client applies the next operation of the patch
ApplyOp ==
  /\ calc # Idle /\ calc.phase = "diffed" /\ calc.k < Len(calc.patch)
  /\ calc' = [calc EXCEPT !.k = @ + 1,
                          !.doc = IF @ = Err THEN Err
                                  ELSE ApplyAt(@, SplitPtr(calc.patch[calc.k + 1].path),
                                               calc.patch[calc.k + 1])]
  /\ UNCHANGED <<stateVars, iter, goVars>>

\* the engine runs again on the same arguments
CallDiffMapsAgain ==
  /\ calc # Idle /\ calc.phase = "diffed" /\ calc.k = Len(calc.patch)
  /\ calc' = [calc EXCEPT !.phase = "again",
                          !.again = diffMaps(<<>>, calc.old.o, calc.new.o, calc.cfg)]
  /\ UNCHANGED <<stateVars, iter, goVars>>

DiffNext ==
  \/ CallDiffMaps
  \/ ApplyOp
  \/ CallDiffMapsAgain
  \/ \E fn \in ValueFns \cup SessionFns : calc = Idle /\ CallUpdate(fn)
  \/ \E e \in EffectChoices : calc = Idle /\ CallAddEffect(e)
  \/ calc = Idle /\ CallClearPrevious
  \/ calc = Idle /\ CallDiff("nil")

DiffSpec == DiffInit /\ [][DiffNext]_vars

(***************************************************************************)
(* Session.Tick running beside State.Update.  Tick makes three calls on    *)
(* the State, each under the State's lock on its own: CleanupExpired,      *)
(* Broadcast (HasChanges, then Diff for the clients) and ClearPrevious.    *)
(* Another goroutine calls Update, once per period of the ticker.  Client  *)
(* Viewer is connected without a projection, holds Full as its document    *)
(* and applies what every Tick returns for it.                             *)
(***************************************************************************)
RaceInit ==
  /\ NewState(SessionStates, SessionCfgs)
  /\ clients = [id \in ClientIDs |-> IF id = Viewer THEN "nil" ELSE "none"]
  /\ now = 1
  /\ doc = ViewerApply(Null, Full(S, clients, Viewer, now).r)
  /\ caps = 0 /\ op = "Full" /\ ret = NoRet
  /\ iter = 0 /\ calc = Idle
  /\ tick = [pc |-> "idle", res |-> NilMap, updates |-> 0, n |-> 0]
  /\ expire = Idle /\ debounce = Idle /\ locks = Idle

raceRest == <<clients, now, caps, diffVars, expire, debounce, locks>>

\* s.state.CleanupExpired()
TickCleanupExpired ==
  /\ tick.pc = "idle" /\ tick.n < MaxTicks
  /\ tick' = [tick EXCEPT !.pc = "CleanupExpired", !.n = @ + 1]
  /\ UNCHANGED <<raceRest, doc, op, ret>>
  /\ Install(CleanupExpired(S, now).s)

\* Broadcast: if !s.state.HasChanges() { return nil }
TickHasChanges ==
  /\ tick.pc = "CleanupExpired"
  /\ tick' = IF HasChanges(S)
               THEN [tick EXCEPT !.pc = "HasChanges"]
               ELSE [tick EXCEPT !.pc = "Broadcast", !.res = NilMap]
  /\ UNCHANGED <<raceRest, doc, op, ret>>
  /\ UNCHANGED <<current, previous, hasPrevi, effects, arrayCfg>>

\* Broadcast: the Diff for the clients, under the read locks
TickBroadcast ==
  /\ tick.pc = "HasChanges"
  /\ tick' = [tick EXCEPT !.pc = "Broadcast", !.res = Broadcast(S, clients, now).r]
  /\ UNCHANGED <<raceRest, doc, op, ret>>
  /\ Install(Broadcast(S, clients, now).s)

\* s.state.ClearPrevious(); return result: the viewer applies its patch
TickClearPrevious ==
  /\ tick.pc = "Broadcast"
  /\ tick' = [tick EXCEPT !.pc = "idle", !.res = NilMap, !.updates = 0]
  /\ op' = "Tick" /\ ret' = tick.res
  /\ doc' = IF ~tick.res.isNil /\ Viewer \in DOMAIN tick.res.m
              THEN ViewerApply(doc, tick.res.m[Viewer])
              ELSE doc
  /\ UNCHANGED raceRest
  /\ Install(ClearPrevious(S).s)

\* the other goroutine: state.Update(fn), at most once per period
GoUpdate(fn) ==
  /\ tick # Idle /\ tick.updates = 0
  /\ tick' = [tick EXCEPT !.updates = 1]
  /\ op' = "Update" /\ ret' = NoRet
  /\ UNCHANGED <<raceRest, doc>>
  /\ Install(Update(S, fn, now).s)

RaceNext ==
  \/ TickCleanupExpired
  \/ TickHasChanges
  \/ TickBroadcast
  \/ TickClearPrevious
  \/ \E fn \in SessionFns : GoUpdate(fn)

RaceSpec == RaceInit /\ [][RaceNext]_vars

\* C11: no change is lost when Update and Tick run concurrently: the change
\* of an Update is in the patch the concurrent Tick returns to the viewer
\* without projection, or it is still pending when that Tick returns and in
\* the patch of the next Tick.  So whenever a Tick has returned and nothing is
\* pending, the viewer's document is the derived state.
C11_NoChangeLost ==
  (tick # Idle /\ tick.pc = "idle" /\ ~HasChanges(S)) => doc = Marshal(Derived)

(***************************************************************************)
(* The expiration timer of a TimedEffect.  One goroutine calls             *)
(* ScheduleExpiration, CancelScheduledExpiration and Extend, one call      *)
(* after the other; each of the first two holds e.mu from its first line   *)
(* to its return.  time.AfterFunc starts a goroutine of its own when the   *)
(* timer fires; Timer.Stop keeps a timer that has not fired from firing    *)
(* and does nothing to one whose goroutine has started.                    *)
(*   expire.pc       where the caller is: "idle", or inside a call         *)
(*   expire.handle   e.expireTimer: 0 for nil, else the number of a timer  *)
(*   expire.at       e.expiresAt, 0 for the zero time                      *)
(*   expire.timeFunc e.TimeFunc: "nil" or "clock"                          *)
(*   expire.clock    TimeFunc(), and the runtime's clock                   *)
(*   expire.last     the timer the last ScheduleExpiration made, 0 if none *)
(*   expire.timers   one record for each timer made: when it is due, its   *)
(*                   state, where its goroutine is, how often its callback *)
(*                   was invoked, and whether that happened after a        *)
(*                   following cancel or schedule call had returned while  *)
(*                   the goroutine had not yet taken e.mu                  *)
(***************************************************************************)
Timer(due) == [due |-> due, st |-> "pending", go |-> "none", invoked |-> 0,
               cancelled |-> FALSE, replaced |-> FALSE,
               afterCancel |-> FALSE, afterReplace |-> FALSE]

\* k is one of the timers made so far
IsTimer(x, k) == x # Idle /\ k <= Len(x.timers)

\* the goroutine of timer t has not taken the lock of its function yet
BeforeLock(t) == t.go \in {"none", "Lock"}

\* Timer.Stop on timer h of timers ts
Stop(ts, h) == IF ts[h].st = "pending" THEN [ts EXCEPT ![h].st = "stopped"] ELSE ts

TimerInit ==
  /\ InitState({ZeroT}, {[Strategy |-> ArrayReplace, KeyField |-> <<>>]}, Unfollowed)
  /\ iter = 0 /\ calc = Idle /\ tick = Idle /\ debounce = Idle /\ locks = Idle
  /\ expire = [pc |-> "idle", handle |-> 0, at |-> 2, timeFunc |-> "clock",
               clock |-> 1, last |-> 0, timers |-> <<>>]

timerRest == <<stateVars, diffVars, tick, debounce, locks>>

\* ScheduleExpiration: e.mu.Lock()
ScheduleLock ==
  /\ expire # Idle /\ expire.pc = "idle" /\ Len(expire.timers) < MaxSchedules
  /\ expire' = [expire EXCEPT !.pc = "ScheduleExpiration"]
  /\ UNCHANGED timerRest

\* ScheduleExpiration from the lock to the return
ScheduleExpiration ==
  /\ expire # Idle /\ expire.pc = "ScheduleExpiration"
  /\ LET stopped == IF expire.handle # 0 THEN Stop(expire.timers, expire.handle)
                    ELSE expire.timers
         id == Len(stopped) + 1
         \* e.TimeFunc == nil || e.expiresAt.IsZero(), or remaining <= 0
         refused == \/ expire.timeFunc = "nil" \/ expire.at = 0
                    \/ expire.at - expire.clock <= 0
     IN /\ expire' =
             IF refused
               THEN [expire EXCEPT !.pc = "idle", !.handle = 0, !.timers = stopped,
                                   !.last = 0]
               ELSE [expire EXCEPT !.pc = "idle", !.handle = id, !.last = id,
                       !.timers = Append([k \in 1..Len(stopped) |->
                                            [stopped[k] EXCEPT !.replaced = BeforeLock(stopped[k])]],
                                         Timer(expire.at))]
        /\ op' = "ScheduleExpiration" /\ ret' = ~refused
  /\ UNCHANGED <<current, previous, hasPrevi, effects, arrayCfg, clients, now, doc, caps>>
  /\ UNCHANGED <<diffVars, tick, debounce, locks>>

\* CancelScheduledExpiration: e.mu.Lock()
CancelLock ==
  /\ expire # Idle /\ expire.pc = "idle"
  /\ expire' = [expire EXCEPT !.pc = "CancelScheduledExpiration"]
  /\ UNCHANGED timerRest

\* CancelScheduledExpiration from the lock to the return
CancelScheduledExpiration ==
  /\ expire # Idle /\ expire.pc = "CancelScheduledExpiration"
  /\ LET stopped == IF expire.handle # 0 THEN Stop(expire.timers, expire.handle)
                    ELSE expire.timers
     IN expire' = [expire EXCEPT !.pc = "idle", !.handle = 0,
                     !.timers = IF expire.last = 0 THEN stopped
                                ELSE [stopped EXCEPT ![expire.last].cancelled =
                                                      BeforeLock(stopped[expire.last])]]
  /\ UNCHANGED timerRest

\* Extend(d) with d one unit of the clock
Extend ==
  /\ expire # Idle /\ expire.pc = "idle" /\ expire.at # 0 /\ expire.at < MaxClock
  /\ expire' = [expire EXCEPT !.at = @ + 1]
  /\ UNCHANGED timerRest

\* the clock moves on
ExpireClock ==
  /\ expire # Idle /\ expire.clock < MaxClock
  /\ expire' = [expire EXCEPT !.clock = @ + 1]
  /\ UNCHANGED timerRest

\* timer k fires: the runtime starts the goroutine of its function
ExpireFire(k) ==
  /\ IsTimer(expire, k)
  /\ expire.timers[k].st = "pending" /\ expire.clock >= expire.timers[k].due
  /\ expire' = [expire EXCEPT !.timers[k].st = "fired", !.timers[k].go = "Lock"]
  /\ UNCHANGED timerRest

\* the goroutine of timer k: e.mu.Lock(); e.expireTimer = nil; e.mu.Unlock()
ExpireClear(k) ==
  /\ IsTimer(expire, k)
  /\ expire.timers[k].go = "Lock" /\ expire.pc = "idle"
  /\ expire' = [expire EXCEPT !.handle = 0, !.timers[k].go = "onExpire"]
  /\ UNCHANGED timerRest

\* the goroutine of timer k: onExpire(id)
ExpireCallback(k) ==
  /\ IsTimer(expire, k)
  /\ expire.timers[k].go = "onExpire"
  /\ expire' = [expire EXCEPT !.timers[k].go = "done",
                              !.timers[k].invoked = @ + 1,
                              !.timers[k].afterCancel = expire.timers[k].cancelled,
                              !.timers[k].afterReplace = expire.timers[k].replaced]
  /\ UNCHANGED timerRest

TimerNext ==
  \/ ScheduleLock
  \/ ScheduleExpiration
  \/ CancelLock
  \/ CancelScheduledExpiration
  \/ Extend
  \/ ExpireClock
  \/ \E k \in 1..MaxSchedules : ExpireFire(k)
  \/ \E k \in 1..MaxSchedules : ExpireClear(k)
  \/ \E k \in 1..MaxSchedules : ExpireCallback(k)

TimerSpec == TimerInit /\ [][TimerNext]_vars

\* C15: once CancelScheduledExpiration has returned, the callback registered
\* by the preceding ScheduleExpiration is never invoked, however the firing of
\* the timer interleaves with the cancellation.
C15_NoCallbackAfterCancel ==
  expire # Idle => \A k \in 1..Len(expire.timers) : ~expire.timers[k].afterCancel

\* C16: after a second ScheduleExpiration has returned, the callback of the
\* earlier call is never invoked, the callback of the latest call is invoked
\* at most once, and while the latest timer is pending e.expireTimer refers
\* to it, however the firing of the earlier timer interleaves.
C16_LatestOnly ==
  expire # Idle =>
    /\ \A k \in 1..Len(expire.timers) :
         ~expire.timers[k].afterReplace /\ expire.timers[k].invoked <= 1
    /\ (expire.pc = "idle" /\ expire.last # 0 /\ expire.timers[expire.last].st = "pending")
         => expire.handle = expire.last

(***************************************************************************)
(* The debounced broadcast of a Session.  One goroutine calls Update and   *)
(* ScheduleBroadcast; ScheduleBroadcast holds debounceMu from its first    *)
(* line to its return.  The function of a timer runs in a goroutine of its *)
(* own: it takes debounceMu, reads onBroadcast, sets debounceTimer to nil, *)
(* releases debounceMu, then calls Tick and the callback.                  *)
(*   debounce.pc        where the caller is                                *)
(*   debounce.handle    s.debounceTimer: 0 for nil, else a timer's number  *)
(*   debounce.clock     the runtime's clock                                *)
(*   debounce.calls     ScheduleBroadcast calls so far, lastCall the clock *)
(*                      when the last one began, burst whether each call   *)
(*                      began less than the debounce after the one before  *)
(*   debounce.timers    for each timer made: when it is due, its state and *)
(*                      where its goroutine is                             *)
(*   debounce.ticks     Ticks made by the timers, tickAt the clock at the  *)
(*                      last of them, callbacks the callback invocations   *)
(***************************************************************************)
\* SetDebounce(d)
DebounceD == 2

DebounceTimer(due) == [due |-> due, st |-> "pending", go |-> "none"]

DebounceInit ==
  /\ NewState({TestState(1, <<>>, <<>>)}, {[Strategy |-> ArrayReplace, KeyField |-> <<>>]})
  /\ clients = [id \in ClientIDs |-> IF id = Viewer THEN "nil" ELSE "none"]
  /\ now = 1 /\ doc = Unfollowed /\ caps = 0 /\ op = "Connect" /\ ret = NoRet
  /\ iter = 0 /\ calc = Idle /\ tick = Idle /\ expire = Idle /\ locks = Idle
  /\ debounce = [pc |-> "idle", handle |-> 0, clock |-> 1, calls |-> 0, lastCall |-> 0,
                 burst |-> TRUE, timers |-> <<>>, ticks |-> 0, tickAt |-> 0,
                 callbacks |-> 0]

debounceRest == <<clients, now, doc, caps, diffVars, tick, expire, locks>>
debounceState == <<current, previous, hasPrevi, effects, arrayCfg, op, ret>>

\* the caller changes the State between its calls of ScheduleBroadcast
DebounceUpdate(fn) ==
  /\ debounce # Idle /\ debounce.pc = "idle"
  /\ op' = "Update" /\ ret' = NoRet
  /\ UNCHANGED <<debounceRest, debounce>>
  /\ Install(Update(S, fn, now).s)

\* ScheduleBroadcast: s.debounceMu.Lock()
BroadcastLock ==
  /\ debounce # Idle /\ debounce.pc = "idle" /\ debounce.calls < MaxSchedules
  /\ debounce' = [debounce EXCEPT
                    !.pc = "ScheduleBroadcast", !.calls = @ + 1,
                    !.lastCall = debounce.clock,
                    !.burst = @ /\ (debounce.calls = 0
                                    \/ debounce.clock - debounce.lastCall < DebounceD)]
  /\ UNCHANGED <<debounceRest, debounceState>>

\* ScheduleBroadcast with a non-zero debounce, from the lock to the return
ScheduleBroadcast ==
  /\ debounce # Idle /\ debounce.pc = "ScheduleBroadcast"
  /\ LET stopped == IF debounce.handle # 0 THEN Stop(debounce.timers, debounce.handle)
                    ELSE debounce.timers
     IN debounce' = [debounce EXCEPT
                       !.pc = "idle", !.handle = Len(stopped) + 1,
                       !.timers = Append(stopped, DebounceTimer(debounce.clock + DebounceD))]
  /\ UNCHANGED <<debounceRest, debounceState>>

\* the clock moves on
DebounceClock ==
  /\ debounce # Idle /\ debounce.clock < MaxClock
  /\ debounce' = [debounce EXCEPT !.clock = @ + 1]
  /\ UNCHANGED <<debounceRest, debounceState>>

\* timer k fires: the runtime starts the goroutine of its function
DebounceFire(k) ==
  /\ IsTimer(debounce, k)
  /\ debounce.timers[k].st = "pending" /\ debounce.clock >= debounce.timers[k].due
  /\ debounce' = [debounce EXCEPT !.timers[k].st = "fired", !.timers[k].go = "Lock"]
  /\ UNCHANGED <<debounceRest, debounceState>>

\* the goroutine of timer k: debounceMu.Lock(); callback := s.onBroadcast;
\* s.debounceTimer = nil; debounceMu.Unlock()
DebounceClear(k) ==
  /\ IsTimer(debounce, k)
  /\ debounce.timers[k].go = "Lock" /\ debounce.pc = "idle"
  /\ debounce' = [debounce EXCEPT !.handle = 0, !.timers[k].go = "Tick"]
  /\ UNCHANGED <<debounceRest, debounceState>>

\* the goroutine of timer k: diffs := s.Tick(); the callback if len(diffs) > 0
DebounceTick(k) ==
  /\ IsTimer(debounce, k)
  /\ debounce.timers[k].go = "Tick"
  /\ LET r == Tick(S, clients, now)
     IN /\ debounce' = [debounce EXCEPT
                          !.timers[k].go = "done", !.ticks = @ + 1,
                          !.tickAt = debounce.clock,
                          !.callbacks = IF ~r.r.isNil /\ DOMAIN r.r.m # {}
                                          THEN @ + 1 ELSE @]
        /\ op' = "Tick" /\ ret' = r.r
        /\ UNCHANGED debounceRest
        /\ Install(r.s)

DebounceNext ==
  \/ \E fn \in {[f |-> "secret", arg |-> x] : x \in Secrets} : DebounceUpdate(fn)
  \/ BroadcastLock
  \/ ScheduleBroadcast
  \/ DebounceClock
  \/ \E k \in 1..MaxSchedules : DebounceFire(k)
  \/ \E k \in 1..MaxSchedules : DebounceClear(k)
  \/ \E k \in 1..MaxSchedules : DebounceTick(k)

DebounceSpec == DebounceInit /\ [][DebounceNext]_vars

\* C17: with a non-zero debounce d, ScheduleBroadcast calls each of which
\* follows the one before by less than d lead to one Tick and at most one
\* callback invocation, d after the last call, however the firing of a timer
\* interleaves with the call that resets it.
C17_OneTick ==
  (debounce # Idle /\ debounce.burst) =>
     /\ debounce.ticks <= 1
     /\ debounce.callbacks <= 1
     /\ (debounce.ticks = 1 /\ debounce.pc = "idle") =>
          debounce.tickAt >= debounce.lastCall + DebounceD

(***************************************************************************)
(* New(initial, cfg) with its validation.  T is any type here: besides the *)
(* TestState values there is a BadState{Ch chan int}, which json.Marshal   *)
(* refuses, and a value with a field of an interface type, which marshals  *)
(* and cannot be unmarshalled.  cfg is nil or a Config{Cloner,             *)
(* ArrayStrategy, ArrayKeyField}.  While no State has been returned the    *)
(* variables of the State hold NoState.                                    *)
(***************************************************************************)
BadState == [Ch |-> "chan int"]
IfaceState == [Shape |-> "interface"]
NilConfig == [nil |-> TRUE]
Config(cloner, strategy, keyField) ==
  [Cloner |-> cloner, ArrayStrategy |-> strategy, ArrayKeyField |-> keyField]
NoState == [nil |-> TRUE]

\* json.Marshal(initial) returns no error
MarshalOK(v) == "Ch" \notin DOMAIN v
\* json.Unmarshal(data, &test) returns no error
UnmarshalOK(v) == "Shape" \notin DOMAIN v

\* New without the check of the key field
NewValidated_NoKeyCheck(initial, cfg) ==
  LET cloner == IF cfg = NilConfig THEN "nil" ELSE cfg.Cloner
      acfg == IF cfg = NilConfig THEN [Strategy |-> ArrayReplace, KeyField |-> <<>>]
              ELSE [Strategy |-> cfg.ArrayStrategy, KeyField |-> cfg.ArrayKeyField]
  IN IF cloner = "nil" /\ ~MarshalOK(initial) THEN [err |-> "marshal", s |-> NoState]
     ELSE IF cloner = "nil" /\ ~UnmarshalOK(initial) THEN [err |-> "unmarshal", s |-> NoState]
     ELSE [err |-> "nil", s |-> New(initial, acfg)]

\* New with its two validations: the pair (State, error) it returns
NewValidated(initial, cfg) ==
  LET cloner == IF cfg = NilConfig THEN "nil" ELSE cfg.Cloner
      acfg == IF cfg = NilConfig THEN [Strategy |-> ArrayReplace, KeyField |-> <<>>]
              ELSE [Strategy |-> cfg.ArrayStrategy, KeyField |-> cfg.ArrayKeyField]
  IN IF cfg # NilConfig /\ cfg.ArrayStrategy = ArrayByKey /\ cfg.ArrayKeyField = <<>>
       THEN [err |-> "key", s |-> NoState]
     ELSE IF cloner = "nil" /\ ~MarshalOK(initial) THEN [err |-> "marshal", s |-> NoState]
     ELSE IF cloner = "nil" /\ ~UnmarshalOK(initial) THEN [err |-> "unmarshal", s |-> NoState]
     ELSE [err |-> "nil", s |-> New(initial, acfg)]

NewInitials == ValueStates \cup SessionStates \cup {BadState, IfaceState}
NewConfigs ==
  {NilConfig}
  \cup {Config(c, st, k) : c \in {"nil", "custom"},
                           st \in {ArrayReplace, ArrayByIndex, ArrayByKey},
                           k \in {<<>>, kID}}

\* a caller is about to call New(initial, cfg)
NewInit ==
  /\ current = NoState /\ previous = NoState /\ hasPrevi = FALSE
  /\ effects = <<>> /\ arrayCfg = NoState
  /\ clients = [id \in ClientIDs |-> "none"]
  /\ now = 1 /\ doc = Unfollowed /\ caps = 0
  /\ op = "args"
  /\ \E initial \in NewInitials, cfg \in NewConfigs : ret = [initial |-> initial, cfg |-> cfg]
  /\ NoGo /\ iter = 0 /\ calc = Idle

CallNew ==
  /\ op = "args"
  /\ LET n == NewValidated(ret.initial, ret.cfg)
     IN /\ op' = "New"
        /\ ret' = [initial |-> ret.initial, cfg |-> ret.cfg, err |-> n.err]
        /\ IF n.s = NoState
             THEN UNCHANGED <<current, previous, hasPrevi, effects, arrayCfg>>
             ELSE Install(n.s)
  /\ UNCHANGED <<diffVars, goVars, clients, now, doc, caps>>

\* on the State New returned
CallHasChanges ==
  /\ op = "New" /\ current # NoState
  /\ op' = "HasChanges"
  /\ ret' = [ret EXCEPT !.err = IF HasChanges(S) THEN "changes" ELSE "nil"]
  /\ UNCHANGED <<diffVars, goVars, current, previous, hasPrevi, effects, arrayCfg, clients,
                 now, doc, caps>>

NewNext ==
  \/ CallNew
  \/ CallHasChanges

NewSpec == NewInit /\ [][NewNext]_vars

\* C25: New returns an error and no State when the configuration selects
\* ByKey with an empty key field, and when there is no custom cloner and the
\* initial value does not survive a JSON round trip; in every other case it
\* returns a State whose base is the initial value, without effects and
\* without a snapshot.
C25_NewValidates ==
  op = "New" =>
    LET cfg == ret.cfg
        badKey == cfg # NilConfig /\ cfg.ArrayStrategy = ArrayByKey
                  /\ cfg.ArrayKeyField = <<>>
        noCloner == cfg = NilConfig \/ cfg.Cloner = "nil"
        badJSON == noCloner /\ ~(MarshalOK(ret.initial) /\ UnmarshalOK(ret.initial))
    IN IF badKey \/ badJSON
         THEN ret.err # "nil" /\ current = NoState
         ELSE /\ ret.err = "nil"
              /\ current = ret.initial
              /\ effects = <<>>
              /\ ~hasPrevi /\ ~HasChanges(S)

\* New refused ByKey with an empty key field although a custom cloner was
\* given and the initial value is a plain one
C25_Witness ==
  /\ op = "New" /\ ret.err = "key" /\ current = NoState
  /\ ret.cfg # NilConfig /\ ret.cfg.Cloner = "custom"
  /\ ret.initial \in SessionStates

(***************************************************************************)
(* The locks.  Session.debounceMu is a sync.Mutex; Session.mu, State.mu    *)
(* and the mu of an effect are sync.RWMutex.  Every operation is the       *)
(* sequence of lock and unlock calls it makes, in the order of its code,   *)
(* with one effect registered whose Apply and Expired read-lock its mu     *)
(* (TimedEffect) and one client connected; the functions of the user take  *)
(* no lock.  A call of Lock on a RWMutex first announces the writer, which *)
(* keeps new readers out, then waits until the readers and the writer that *)
(* hold the lock have left; RLock waits while a writer holds the lock or   *)
(* is announced.                                                           *)
(* The goroutines differ in nothing but the operation they run and how far *)
(* they are in it, so the model keeps them as a bag of such records.       *)
(*   locks.th           the bag of the goroutines; for a goroutine g       *)
(*     g.prog           the calls of the operation it runs, <<>> before it *)
(*                      has begun                                          *)
(*     g.pc             the call it makes next                             *)
(*     g.ann            it is inside Lock and has announced itself         *)
(*     g.held           the locks it holds, each with the way it took it   *)
(*   locks.contended    some Lock call found its lock taken                *)
(***************************************************************************)
\* a goroutine that has not begun its operation
NotBegun == [prog |-> <<>>, pc |-> 0, ann |-> FALSE, held |-> {}]

LockRank == [debounce |-> 1, session |-> 2, state |-> 3, effect |-> 4]

Call(a, l) == [a |-> a, l |-> l]

\* TimedEffect.Apply, and TimedEffect.Expired: the fields are read under
\* e.mu.RLock(), fn runs after e.mu.RUnlock()
pApply == <<Call("RLock", "effect"), Call("RUnlock", "effect")>>
pExpired == <<Call("RLock", "effect"), Call("RUnlock", "effect")>>
\* withEffects: Apply of each effect in the list
pWithEffects == pApply
pFullState == <<Call("RLock", "state")>> \o pWithEffects \o <<Call("RUnlock", "state")>>
pStateDiff == <<Call("RLock", "state")>> \o pWithEffects \o <<Call("RUnlock", "state")>>
pHasChanges == <<Call("RLock", "state"), Call("RUnlock", "state")>>
\* Update, Set, AddEffect and RemoveEffect: the snapshot under s.mu.Lock()
pUpdate == <<Call("Lock", "state")>> \o pWithEffects \o <<Call("Unlock", "state")>>
pCleanupExpired ==
  <<Call("Lock", "state")>> \o pExpired \o pWithEffects \o pExpired
    \o <<Call("Unlock", "state")>>
pClearPrevious == <<Call("Lock", "state"), Call("Unlock", "state")>>
pConnect == <<Call("Lock", "session"), Call("Unlock", "session")>>
\* Full with the State's lock taken before the Session's
pFull_StateFirst ==
  <<Call("RLock", "state"), Call("RLock", "session")>> \o pWithEffects
    \o <<Call("RUnlock", "session"), Call("RUnlock", "state")>>
pFull == <<Call("RLock", "session")>> \o pFullState \o <<Call("RUnlock", "session")>>
pSessionDiff == <<Call("RLock", "session")>> \o pStateDiff \o <<Call("RUnlock", "session")>>
pBroadcast ==
  pHasChanges \o <<Call("RLock", "session")>> \o pStateDiff \o <<Call("RUnlock", "session")>>
pTick == pCleanupExpired \o pBroadcast \o pClearPrevious
\* ScheduleBroadcast without a debounce: Tick under debounceMu
pScheduleBroadcast ==
  <<Call("Lock", "debounce")>> \o pTick \o <<Call("Unlock", "debounce")>>
\* ScheduleBroadcast with a debounce, and the function of its timer
pScheduleDebounced == <<Call("Lock", "debounce"), Call("Unlock", "debounce")>>
pDebounceFunc == <<Call("Lock", "debounce"), Call("Unlock", "debounce")>> \o pTick
\* Extend, SetExpiresAt, SetActivator, Enable, Disable, Push, Pop
pExtend == <<Call("Lock", "effect"), Call("Unlock", "effect")>>

LockProgram ==
  [Connect |-> pConnect, Disconnect |-> pConnect,
   Full |-> pFull, Diff |-> pSessionDiff,
   Broadcast |-> pBroadcast, Tick |-> pTick,
   ScheduleBroadcast |-> pScheduleBroadcast,
   ScheduleDebounced |-> pScheduleDebounced, debounceFunc |-> pDebounceFunc,
   Update |-> pUpdate, Set |-> pUpdate, AddEffect |-> pUpdate, RemoveEffect |-> pUpdate,
   CleanupExpired |-> pCleanupExpired, Extend |-> pExtend]

LockOps == DOMAIN LockProgram

LockInit ==
  /\ InitState({ZeroT}, {[Strategy |-> ArrayReplace, KeyField |-> <<>>]}, Unfollowed)
  /\ iter = 0 /\ calc = Idle /\ tick = Idle /\ expire = Idle /\ debounce = Idle
  /\ locks = [th |-> [g \in {NotBegun} |-> MaxThreads], contended |-> FALSE]

lockRest == <<stateVars, diffVars, tick, expire, debounce>>

\* the goroutines, one record for all that are in the same place
Goroutines == IF locks = Idle THEN {} ELSE BagToSet(locks.th)

\* the call goroutine g makes next, when it is call a
AtCall(g, a) == g.pc >= 1 /\ g.pc <= Len(g.prog) /\ g.prog[g.pc].a = a
NextLock(g) == g.prog[g.pc].l

\* the goroutines that hold lock l, taken by call a
Holder(l, a) == {g \in Goroutines : <<l, a>> \in g.held}
\* the writers of lock l that have announced themselves
Announced(l) == {g \in Goroutines : AtCall(g, "Lock") /\ NextLock(g) = l /\ g.ann}

\* goroutine g has run its operation to the end
Returned(g) == g.pc > Len(g.prog)

\* one goroutine goes from g to h
Step(g, h) == [locks EXCEPT !.th = (@ (-) SetToBag({g})) (+) SetToBag({h})]

\* a goroutine begins operation o
Begin(g, o) ==
  /\ g.pc = 0
  /\ locks' = Step(g, [g EXCEPT !.prog = LockProgram[o], !.pc = 1])
  /\ UNCHANGED lockRest

\* Lock: the writer announces itself
LockAnnounce(g) ==
  /\ AtCall(g, "Lock") /\ ~g.ann
  /\ locks' = [Step(g, [g EXCEPT !.ann = TRUE]) EXCEPT
                 !.contended = @ \/ Holder(NextLock(g), "Lock") # {}
                                 \/ Holder(NextLock(g), "RLock") # {}]
  /\ UNCHANGED lockRest

\* Lock returns: no reader and no writer holds the lock
LockAcquire(g) ==
  /\ AtCall(g, "Lock") /\ g.ann
  /\ Holder(NextLock(g), "Lock") = {} /\ Holder(NextLock(g), "RLock") = {}
  /\ locks' = Step(g, [g EXCEPT !.ann = FALSE, !.pc = @ + 1,
                                !.held = @ \cup {<<NextLock(g), "Lock">>}])
  /\ UNCHANGED lockRest

\* RLock returns: no writer holds the lock or is announced
LockRLock(g) ==
  /\ AtCall(g, "RLock")
  /\ Holder(NextLock(g), "Lock") = {} /\ Announced(NextLock(g)) = {}
  /\ locks' = Step(g, [g EXCEPT !.pc = @ + 1,
                                !.held = @ \cup {<<NextLock(g), "RLock">>}])
  /\ UNCHANGED lockRest

LockUnlock(g) ==
  /\ AtCall(g, "Unlock")
  /\ locks' = Step(g, [g EXCEPT !.pc = @ + 1, !.held = @ \ {<<NextLock(g), "Lock">>}])
  /\ UNCHANGED lockRest

LockRUnlock(g) ==
  /\ AtCall(g, "RUnlock")
  /\ locks' = Step(g, [g EXCEPT !.pc = @ + 1, !.held = @ \ {<<NextLock(g), "RLock">>}])
  /\ UNCHANGED lockRest

LockNext ==
  \/ \E g \in Goroutines : \E o \in LockOps : Begin(g, o)
  \/ \E g \in Goroutines : LockAnnounce(g)
  \/ \E g \in Goroutines : LockAcquire(g)
  \/ \E g \in Goroutines : LockRLock(g)
  \/ \E g \in Goroutines : LockUnlock(g)
  \/ \E g \in Goroutines : LockRUnlock(g)

LockSpec == LockInit /\ [][LockNext]_vars

\* the Go scheduler runs some goroutine that can run
LockFairSpec == LockSpec /\ WF_vars(LockNext)

\* every lock a goroutine holds ranks below the lock it is about to take
LockOrder ==
  \A g \in Goroutines :
    (AtCall(g, "Lock") \/ AtCall(g, "RLock")) =>
      \A h \in g.held : LockRank[h[1]] < LockRank[NextLock(g)]

AllReturned == locks # Idle /\ \A g \in Goroutines : g.pc > 0 /\ Returned(g)

\* C23: every operation takes its locks in the order debounce, session,
\* state, effect and never takes a lock it holds, and the goroutines that run
\* Connect, Disconnect, Full, Diff, Broadcast, Tick, ScheduleBroadcast, Update,
\* Set, AddEffect, RemoveEffect, CleanupExpired and effect mutators side by
\* side all run their operation to the end.
C23_DeadlockFree == []LockOrder /\ <>AllReturned

\* a Lock call found its lock taken, and all goroutines have returned from a
\* ScheduleBroadcast, a Full and an Update
C23_Witness ==
  /\ AllReturned /\ locks.contended
  /\ \E g \in Goroutines : g.prog = pScheduleBroadcast
  /\ \E g \in Goroutines : g.prog = pFull
  /\ \E g \in Goroutines : g.prog = pUpdate

(***************************************************************************)
(* State.Update beside the readers of the State.  Each goroutine runs one  *)
(* of Update, Get, GetBase and Diff on a State that holds one effect.  The *)
(* function passed to Update is                                            *)
(*     func(ts *TestState) { ts.Value++; ts.Items[0].Data = ts.Value }     *)
(* whose increment is a load and a store.  Here locks holds                *)
(*   locks.writer     the goroutine inside s.mu.Lock(), 0 if none          *)
(*   locks.readers    the goroutines inside s.mu.RLock()                   *)
(*   locks.go[t]      the operation of goroutine t, the step it makes      *)
(*                    next, the value its fn loaded and what its read      *)
(*                    returned                                             *)
(*   locks.bases      the base before the first Update and after each fn   *)
(***************************************************************************)
Threads == 1..MaxThreads

\* Update with s.mu released before fn runs
UpdateSteps_UnlockBeforeFn == <<"Lock", "capture", "Unlock", "load", "store", "data">>

\* Update: s.mu.Lock(); defer s.mu.Unlock(); s.previous = ...; s.hasPrevi =
\* true; fn(&s.current)
UpdateSteps == <<"Lock", "capture", "load", "store", "data", "Unlock">>

\* Get, GetBase and Diff: s.mu.RLock(); defer s.mu.RUnlock(); the read
ReadSteps == <<"RLock", "read", "RUnlock">>

StepsOf(o) == IF o = "Update" THEN UpdateSteps ELSE ReadSteps

AtomOps == {"Update", "Get", "GetBase", "Diff"}

NotSeen == [none |-> TRUE]

AtomInit ==
  /\ current = TestState(0, <<Item(<<"a">>, 0)>>, <<>>)
  /\ previous = ZeroT /\ hasPrevi = FALSE
  /\ effects = <<Func("e1", "inc")>>
  /\ arrayCfg = [Strategy |-> ArrayByIndex, KeyField |-> <<>>]
  /\ clients = [id \in ClientIDs |-> "none"]
  /\ now = 1 /\ doc = Unfollowed /\ caps = 0 /\ op = "AddEffect" /\ ret = TRUE
  /\ iter = 0 /\ calc = Idle /\ tick = Idle /\ expire = Idle /\ debounce = Idle
  /\ locks = [writer |-> 0, readers |-> {},
              go |-> [t \in Threads |-> [op |-> "none", pc |-> 0, local |-> 0,
                                          seen |-> NotSeen]],
              bases |-> {current}]

atomRest == <<effects, arrayCfg, clients, now, doc, caps, op, ret, diffVars, tick, expire,
              debounce>>
atomState == <<current, previous, hasPrevi>>

\* goroutine t is at step st of its operation
AtStep(t, st) ==
  /\ locks # Idle /\ locks.go[t].pc >= 1
  /\ locks.go[t].pc <= Len(StepsOf(locks.go[t].op))
  /\ StepsOf(locks.go[t].op)[locks.go[t].pc] = st

\* goroutine t has made its step
Stepped(t) == [locks EXCEPT !.go[t].pc = @ + 1]

AtomBegin(t, o) ==
  /\ locks # Idle /\ locks.go[t].pc = 0
  /\ locks' = [locks EXCEPT !.go[t].op = o, !.go[t].pc = 1]
  /\ UNCHANGED <<atomRest, atomState>>

\* s.mu.Lock() returns
AtomLock(t) ==
  /\ AtStep(t, "Lock") /\ locks.writer = 0 /\ locks.readers = {}
  /\ locks' = [Stepped(t) EXCEPT !.writer = t]
  /\ UNCHANGED <<atomRest, atomState>>

\* s.previous = s.withEffects(s.current); s.hasPrevi = true
AtomCapture(t) ==
  /\ AtStep(t, "capture")
  /\ previous' = withEffects(S, current, now).result
  /\ hasPrevi' = TRUE
  /\ locks' = Stepped(t)
  /\ UNCHANGED <<atomRest, current>>

\* ts.Value++: the load
AtomLoad(t) ==
  /\ AtStep(t, "load")
  /\ locks' = [Stepped(t) EXCEPT !.go[t].local = current.Value]
  /\ UNCHANGED <<atomRest, atomState>>

\* ts.Value++: the store
AtomStore(t) ==
  /\ AtStep(t, "store")
  /\ current' = [current EXCEPT !.Value = locks.go[t].local + 1]
  /\ locks' = Stepped(t)
  /\ UNCHANGED <<atomRest, previous, hasPrevi>>

\* ts.Items[0].Data = ts.Value; fn returns
AtomData(t) ==
  /\ AtStep(t, "data")
  /\ current' = [current EXCEPT !.Items[1].Data = current.Value]
  /\ locks' = [Stepped(t) EXCEPT !.bases = @ \cup {current'}]
  /\ UNCHANGED <<atomRest, previous, hasPrevi>>

\* the deferred s.mu.Unlock()
AtomUnlock(t) ==
  /\ AtStep(t, "Unlock")
  /\ locks' = [Stepped(t) EXCEPT !.writer = IF @ = t THEN 0 ELSE @]
  /\ UNCHANGED <<atomRest, atomState>>

\* s.mu.RLock() returns
AtomRLock(t) ==
  /\ AtStep(t, "RLock") /\ locks.writer = 0
  /\ locks' = [Stepped(t) EXCEPT !.readers = @ \cup {t}]
  /\ UNCHANGED <<atomRest, atomState>>

\* the body of Get, GetBase or Diff: what it read of the State
AtomRead(t) ==
  /\ AtStep(t, "read")
  /\ locks' = [Stepped(t) EXCEPT !.go[t].seen =
                 CASE locks.go[t].op = "Get" -> [derived |-> Get(S, now).r]
                   [] locks.go[t].op = "GetBase" -> [base |-> GetBase(S)]
                   [] OTHER -> [hasPrevi |-> hasPrevi, old |-> previous,
                                new |-> withEffects(S, current, now).result,
                                patch |-> Diff(S, "nil", now).r]]
  /\ UNCHANGED <<atomRest, atomState>>

\* the deferred s.mu.RUnlock()
AtomRUnlock(t) ==
  /\ AtStep(t, "RUnlock")
  /\ locks' = [Stepped(t) EXCEPT !.readers = @ \ {t}]
  /\ UNCHANGED <<atomRest, atomState>>

AtomNext ==
  \/ \E t \in Threads : \E o \in AtomOps : AtomBegin(t, o)
  \/ \E t \in Threads : AtomLock(t)
  \/ \E t \in Threads : AtomCapture(t)
  \/ \E t \in Threads : AtomLoad(t)
  \/ \E t \in Threads : AtomStore(t)
  \/ \E t \in Threads : AtomData(t)
  \/ \E t \in Threads : AtomUnlock(t)
  \/ \E t \in Threads : AtomRLock(t)
  \/ \E t \in Threads : AtomRead(t)
  \/ \E t \in Threads : AtomRUnlock(t)

AtomSpec == AtomInit /\ [][AtomNext]_vars

\* goroutine t has returned from its operation
AtomDone(t) == locks.go[t].pc > Len(StepsOf(locks.go[t].op))
\* the Update calls that have returned
Updated == {t \in Threads : locks.go[t].op = "Update" /\ AtomDone(t)}
\* no Update is between its Lock and its return
NoUpdateRunning ==
  \A t \in Threads : locks.go[t].op = "Update" => (locks.go[t].pc = 1 \/ AtomDone(t))
\* the derived state of base b
DerivedOf(b) == withEffects(S, b, now).result

\* C24: Update is atomic towards the other operations of the State: once N
\* Update calls whose fn increments a counter have returned, and no other is
\* running, the counter of the base is N above its start, whatever ran beside
\* them; and what Get, GetBase and Diff read is the base before or after a
\* whole fn (with the effects applied, for Get and Diff), never one that fn has
\* half written.
C24_UpdateAtomic ==
  /\ NoUpdateRunning =>
       /\ current.Value = Cardinality(Updated)
       /\ current.Items[1].Data = current.Value
  /\ \A t \in Threads :
       LET seen == locks.go[t].seen
       IN seen # NotSeen =>
            CASE locks.go[t].op = "Get" ->
                   \E b \in locks.bases : seen.derived = DerivedOf(b)
              [] locks.go[t].op = "GetBase" -> seen.base \in locks.bases
              [] OTHER ->
                   /\ \E b \in locks.bases : seen.new = DerivedOf(b)
                   /\ seen.hasPrevi =>
                        /\ \E b \in locks.bases : seen.old = DerivedOf(b)
                        /\ seen.patch = calcDiff(seen.old, seen.new, arrayCfg)

\* two Update calls have returned, and a Diff that ran between them has read
\* the base the first one left
C24_Witness ==
  /\ Cardinality(Updated) = 2 /\ current.Value = 2
  /\ \E t \in Threads :
       /\ locks.go[t].op = "Diff" /\ AtomDone(t)
       /\ locks.go[t].seen.hasPrevi
       /\ locks.go[t].seen.new.Value = 2 /\ ~Empty(locks.go[t].seen.patch)

(***************************************************************************)
(* Properties of the diff engine (DiffSpec)                                *)
(***************************************************************************)
Diffed == calc # Idle /\ calc.phase # "args"
AllApplied == Diffed /\ calc.k = Len(calc.patch)
itemsPath == <<"/">> \o kItems
HasArr(d) == kItems \in DOMAIN d.o /\ d.o[kItems].t = "arr"
oldItems == calc.old.o[kItems].a
newItems == calc.new.o[kItems].a
\* the operations of the patch on direct elements of /items, by kind
ItemOps(kind) ==
  SelectSeq(calc.patch, LAMBDA o : /\ o.op = kind
                                   /\ Len(o.path) = Len(itemsPath) + 2
                                   /\ SubSeq(o.path, 1, Len(itemsPath) + 1) = itemsPath \o <<"/">>)

\* C18: under the Replace and ByIndex strategies the operations of
\* Diff(old, new), applied one after another to a copy of old, yield new; under
\* ByIndex the trailing elements are removed from the highest index down and
\* the new trailing elements are appended through "/-" in their original order.
C18_RoundTrip ==
  (AllApplied /\ calc.cfg.Strategy \in {ArrayReplace, ArrayByIndex}) =>
     /\ calc.doc = calc.new
     /\ (calc.cfg.Strategy = ArrayByIndex /\ HasArr(calc.old) /\ HasArr(calc.new)) =>
          /\ ItemOps("remove") =
               [j \in 1..(IF Len(oldItems) > Len(newItems)
                          THEN Len(oldItems) - Len(newItems) ELSE 0) |->
                  OpRemove(itemsPath \o <<"/">> \o Itoa(Len(oldItems) - j))]
          /\ ItemOps("add") =
               [j \in 1..(IF Len(newItems) > Len(oldItems)
                          THEN Len(newItems) - Len(oldItems) ELSE 0) |->
                  OpAdd(itemsPath \o <<"/", "-">>, newItems[Len(oldItems) + j])]

\* two trailing elements were removed, or two appended, and all was applied
C18_Witness ==
  /\ AllApplied /\ calc.cfg.Strategy = ArrayByIndex
  /\ HasArr(calc.old) /\ HasArr(calc.new)
  /\ Len(ItemOps("remove")) = 2
  /\ calc.doc = calc.new

\* C19: for every value v and every array configuration Diff(v, v) is the
\* empty patch; hence after an Update whose function left the base state as it
\* was, HasChanges() is true and Diff is empty.
C19_SelfDiffEmpty ==
  /\ (Diffed /\ calc.old = calc.new) => Empty(calc.patch)
  /\ calc = Idle =>
       \A fn \in ValueFns \cup SessionFns :
         UpdateFn(fn, current) = current =>
           LET u == Update(S, fn, now).s
           IN HasChanges(u) /\ Empty(Diff(u, "nil", now).r)

\* the engine ran on twice the same object holding an array of two elements,
\* under the ByKey strategy
C19_Witness ==
  /\ Diffed /\ calc.old = calc.new
  /\ calc.cfg.Strategy = ArrayByKey /\ calc.cfg.KeyField = kID
  /\ HasArr(calc.old) /\ Len(oldItems) = 2
  /\ Empty(calc.patch)

\* the top-level key each operation of the patch is about
TopKeys == [i \in 1..Len(calc.patch) |-> SplitPtr(calc.patch[i].path)[1]]

\* C20: two evaluations of Diff on equal inputs produce the same sequence of
\* operations whatever order the ranges over maps take, and the keys of an
\* object are emitted as the removed and changed keys in sorted order first,
\* then the added keys in sorted order.
C20_Deterministic ==
  /\ (calc # Idle /\ calc.phase = "again") => calc.again = calc.patch
  /\ Diffed =>
       \E n \in 0..Len(calc.patch) :
         /\ \A i \in 1..n : TopKeys[i] \in DOMAIN calc.old.o
         /\ \A i \in 1..(n - 1) : TopKeys[i] = TopKeys[i + 1] \/ StrLess(TopKeys[i], TopKeys[i + 1])
         /\ \A i \in (n + 1)..Len(calc.patch) :
              /\ TopKeys[i] \notin DOMAIN calc.old.o
              /\ calc.patch[i].op = "add"
         /\ \A i \in (n + 1)..(Len(calc.patch) - 1) : StrLess(TopKeys[i], TopKeys[i + 1])

\* the second evaluation ranged over the maps in the other order, and the
\* patch is about two keys and removes two array elements by key
C20_Witness ==
  /\ calc # Idle /\ calc.phase = "again" /\ iter = 1
  /\ \E i, j \in 1..Len(calc.patch) : TopKeys[i] # TopKeys[j]
  /\ calc.cfg.Strategy = ArrayByKey /\ Len(ItemOps("remove")) = 2
  /\ calc.again = calc.patch

\* ByKey with a key field is the strategy of the call, and both objects
\* hold an array under items
ByKeyCall ==
  /\ Diffed /\ calc.cfg.Strategy = ArrayByKey /\ calc.cfg.KeyField # <<>>
  /\ HasArr(calc.old) /\ HasArr(calc.new)

\* the keys the elements of array a carry
KeysOf(a) == {GetKey(a[i], calc.cfg) : i \in {j \in 1..Len(a) : HasKey(a[j], calc.cfg)}}

\* the 0-based indices of the keyed elements of old whose key no element of
\* new carries
RemovedOld ==
  {i - 1 : i \in {j \in 1..Len(oldItems) :
                    /\ HasKey(oldItems[j], calc.cfg)
                    /\ GetKey(oldItems[j], calc.cfg) \notin KeysOf(newItems)}}

\* no two keyed elements of array a carry the same key
UniqueKeys(a) ==
  \A i \in 1..Len(a) : \A j \in 1..Len(a) :
    (i # j /\ HasKey(a[i], calc.cfg) /\ HasKey(a[j], calc.cfg))
      => GetKey(a[i], calc.cfg) # GetKey(a[j], calc.cfg)

\* C21: under ByKey the remove operations for one array are one for each
\* keyed element of old whose key is absent from new, each at the old index of
\* that element, in strictly descending order of the index.
C21_RemovesPerElement ==
  ByKeyCall =>
    ItemOps("remove") =
      [j \in 1..Cardinality(RemovedOld) |->
         OpRemove(itemsPath \o <<"/">> \o Itoa(Descending(RemovedOld)[j]))]

\* the operation the client applies next, and the segments of its path
NextOp == calc.patch[calc.k + 1]
NextSegs == SplitPtr(NextOp.path)

\* the client is about to apply an operation inside an element of /items
ModifyNext ==
  /\ calc.k < Len(calc.patch) /\ calc.doc # Err
  /\ Len(NextSegs) >= 3 /\ NextSegs[1] = kItems /\ IsIndex(NextSegs[2])

\* C22: under ByKey, for old and new arrays with unique keys, the index in
\* the path of an operation that modifies an element whose key is in both
\* arrays (its index in new) is the position of the element with that key in
\* the client's array when the operation is applied, that is after the removes
\* and all earlier operations of the patch.
C22_ModifyTargetsElement ==
  (ByKeyCall /\ UniqueKeys(oldItems) /\ UniqueKeys(newItems) /\ ModifyNext) =>
     LET ni == Atoi(NextSegs[2])
         arr == calc.doc.o[kItems].a
     IN /\ ni < Len(newItems)
        /\ ni < Len(arr)
        /\ HasKey(arr[ni + 1], calc.cfg)
        /\ GetKey(arr[ni + 1], calc.cfg) = GetKey(newItems[ni + 1], calc.cfg)

(***************************************************************************)
(* Properties of the State container (Spec)                                *)
(***************************************************************************)

\* C1: when a snapshot is already held, a CleanupExpired that removes
\* expired effects leaves the snapshot and hasPrevi as they were, so that
\* Diff(nil) afterwards is still the difference from that snapshot to the
\* derived state and carries the pending change of the base.
C1_SnapshotPreserved ==
  [][(CallCleanupExpired /\ hasPrevi /\ Len(effects') < Len(effects)) =>
       /\ previous' = previous
       /\ hasPrevi'
       /\ Diff(S, "nil", now).r' = calcDiff(previous, Derived', arrayCfg)
       /\ ApplyPatch(Marshal(previous), Diff(S, "nil", now).r') = Marshal(Derived')]_vars

\* a CleanupExpired removed an effect while the snapshot of an earlier
\* Update was held, and Diff(nil) reports the change
C1_Witness ==
  /\ op = "CleanupExpired" /\ ret > 0
  /\ hasPrevi /\ previous.Value # current.Value
  /\ ~Empty(Diff(S, "nil", now).r)

\* C4: after every successful capturing operation hasPrevi is true and the
\* snapshot is the derived state as it was immediately before the
\* operation, whatever snapshot was held; HasChanges is then true, and it
\* stays true until ClearPrevious is called.
C4_Capture ==
  [][/\ ( \/ \E fn \in ValueFns : CallUpdate(fn)
          \/ \E v \in ValueStates : CallSet(v)
          \/ \E e \in EffectChoices : (CallAddEffect(e) /\ ~HasEffect(S, e.id))
          \/ \E id \in EffectIDs : (CallRemoveEffect(id) /\ HasEffect(S, id))
          \/ (CallClearEffects /\ Len(effects) > 0) )
        => (hasPrevi' /\ previous' = Derived /\ HasChanges(S)')
     /\ (HasChanges(S) /\ ~HasChanges(S)') => CallClearPrevious]_vars

\* a capturing operation replaced a snapshot by the derived state, which an
\* effect makes differ from the base
C4_Witness ==
  /\ op \in {"Update", "Set", "AddEffect", "RemoveEffect", "ClearEffects"}
  /\ (op = "AddEffect" => ret = TRUE)
  /\ hasPrevi /\ previous # current /\ previous # Derived

\* C5: AddEffect with an ID that is already in the list returns an error
\* and changes nothing: the list, the base, the snapshot, hasPrevi and what
\* Get returns are as before the call.
C5_DuplicateRejected ==
  [][\A e \in EffectChoices :
       (CallAddEffect(e) /\ HasEffect(S, e.id)) =>
         /\ ret' = FALSE
         /\ effects' = effects
         /\ current' = current /\ GetBase(S)' = GetBase(S)
         /\ previous' = previous
         /\ hasPrevi' = hasPrevi
         /\ Derived' = Derived]_vars

\* a duplicate AddEffect failed while no snapshot was held
C5_Witness ==
  /\ op = "AddEffect" /\ ret = FALSE
  /\ ~hasPrevi /\ Len(effects) > 0 /\ Derived # current

\* C6: in every reachable state no two effects of the list have the same
\* ID.
C6_UniqueIDs ==
  \A i \in 1..Len(effects) : \A j \in 1..Len(effects) :
    i # j => effects[i].id # effects[j].id

\* the list holds every ID and one more AddEffect has just been refused
C6_Witness ==
  /\ Len(effects) = Cardinality(EffectIDs)
  /\ op = "AddEffect" /\ ret = FALSE

\* C7: the list is in insertion order: a successful AddEffect appends at
\* the end, every other step leaves the effects that remain in the order
\* they had, and Get applies the effects in list order to a clone of the
\* base.
C7_InsertionOrder ==
  [][/\ \A e \in EffectChoices :
          (CallAddEffect(e) /\ ret' = TRUE) => effects' = Append(effects, e)
     /\ (~\E e \in EffectChoices : (CallAddEffect(e) /\ ret' = TRUE)) =>
          \A i \in 1..Len(effects') : \A j \in 1..Len(effects') :
            i < j => \E a \in 1..Len(effects) : \E b \in 1..Len(effects) :
                       a < b /\ effects[a] = effects'[i] /\ effects[b] = effects'[j]
     /\ Derived' =
          (IF Len(effects') = 0 THEN GetBase(S)'
           ELSE IF Len(effects') = 1
             THEN Apply(effects'[1], GetBase(S)', now').ret
           ELSE IF Len(effects') = 2
             THEN Apply(effects'[2],
                        Apply(effects'[1], GetBase(S)', now').ret, now').ret
           ELSE Apply(effects'[3],
                      Apply(effects'[2],
                            Apply(effects'[1], GetBase(S)', now').ret, now').ret,
                      now').ret)]_vars

\* the middle one of three effects was removed; the two that remain do not
\* commute and Get shows the first applied first
C7_Witness ==
  /\ op \in {"RemoveEffect", "CleanupExpired"}
  /\ Len(effects) = 2
  /\ effects[1].fn = "dbl" /\ effects[2].fn = "inc"
  /\ current.Value = 1 /\ Derived.Value = 3

(***************************************************************************)
(* Properties of the Session (SessionSpec) and of its viewers (ViewerSpec) *)
(***************************************************************************)

\* C2: the map Transaction returns holds, for every connected client
\* without a projection, a patch that takes the derived state as it was
\* before the transaction to the derived state after it (no patch when the
\* two are equal), so that no update made inside the transaction is missing.
C2_TransactionBatched ==
  [][\A calls \in TxBodies :
       CallTransaction(calls) =>
         \A id \in ClientIDs :
           clients[id] = "nil" =>
             /\ ~ret'.isNil
             /\ ApplyPatch(Marshal(Derived),
                           IF id \in DOMAIN ret'.m
                             THEN DecodePatch(ret'.m[id]) ELSE <<>>)
                  = Marshal(Derived')]_vars

\* C3: with strategy Replace or ByIndex, one capturing operation between
\* consecutive Ticks and no other change of an effect's output, the
\* document of a viewer that started from Full(id) and applied every patch
\* Tick returned for its id equals the projection of the derived state
\* after each Tick.
C3_ViewerConverges ==
  (op = "Tick" /\ doc # NoDoc /\ arrayCfg.Strategy \in {ArrayReplace, ArrayByIndex})
    => doc = Marshal(Project(projectionOf(clients, Viewer), Derived))

\* C8: a step that changes the value GetBase returns is no AddEffect,
\* RemoveEffect, ClearEffects, CleanupExpired, ClearPrevious, Get, Diff,
\* FullState (through Full), Session.Diff, Broadcast, Tick, Connect or
\* Disconnect, even when an effect writes into the interior of the value it
\* is given; it is an Update or a Set, alone or inside ApplyUpdate or
\* Transaction.
C8_BaseUnchanged ==
  [][GetBase(S)' # GetBase(S) =>
       /\ ~( \/ \E e \in SessionEffectChoices : CallAddEffect(e)
             \/ CallRemoveEffect("e1")
             \/ CallClearEffects
             \/ CallCleanupExpired
             \/ CallClearPrevious
             \/ CallGet
             \/ \E p \in Projections : CallDiff(p)
             \/ \E id \in ClientIDs : CallFull(id)
             \/ \E id \in ClientIDs : CallSessionDiff(id)
             \/ CallBroadcast
             \/ CallTick
             \/ \E id \in ClientIDs : \E p \in Projections : CallConnect(id, p)
             \/ \E id \in ClientIDs : CallDisconnect(id)
             \/ Advance )
       /\ op' \in {"Update", "Set", "ApplyUpdate", "Transaction"}]_vars

\* an effect that writes into Items[0] is active after a Tick: Get shows
\* its write and the base does not
C8_Witness ==
  /\ op = "Tick"
  /\ Len(effects) = 1 /\ ~Expired(effects[1], now)
  /\ Derived.Items[1].Data = 9
  /\ GetBase(S).Items[1].Data = 1

\* C9: while no snapshot is held State.Diff returns the nil patch for every
\* projection, Session.Diff returns the two-byte document [] for every
\* client ID, and Broadcast returns the nil map.
C9_NoSnapshot ==
  ~hasPrevi =>
    /\ \A p \in Projections : Empty(Diff(S, p, now).r)
    /\ \A id \in ClientIDs :
         /\ Len(SessionDiff(S, clients, id, now).r) = 2
         /\ SessionDiff(S, clients, id, now).r = <<[c |-> "["], [c |-> "]"]>>
    /\ Broadcast(S, clients, now).r.isNil

\* no snapshot is held after a Tick, although the derived state differs
\* from the value the last snapshot had and both clients are connected
C9_Witness ==
  /\ ~hasPrevi /\ op = "Tick"
  /\ previous # Derived
  /\ \A id \in ClientIDs : IsConnected(clients, id)
  /\ Len(effects) > 0

\* C10: Tick is CleanupExpired, then Broadcast, then ClearPrevious: the map
\* it returns is what Broadcast returns once the expired effects are
\* removed, no expired effect is left and HasChanges is false when it
\* returns, and a Tick that immediately follows a Tick returns nil.
C10_TickOrder ==
  [][CallTick =>
       /\ ret' = Broadcast(CleanupExpired(S, now).s, clients, now).r
       /\ effects' = CleanupExpired(S, now).s.effects
       /\ \A i \in 1..Len(effects') : ~Expired(effects'[i], now)
       /\ ~HasChanges(S)'
       /\ op = "Tick" => ret'.isNil]_vars

\* a Tick removed an expired effect while no snapshot was held and returned
\* a map that is not nil
C10_Witness ==
  /\ op = "Tick" /\ ~ret.isNil
  /\ now = MaxTime /\ effects = <<>>
  /\ previous.Items[1].Data = 1 /\ ~hasPrevi /\ ret.m = <<>>

\* C12: in one Broadcast result two connected clients without a projection
\* are both present or both absent, and when present their bytes are equal.
C12_SharedFullDiff ==
  LET b == Broadcast(S, clients, now).r
  IN \A id1 \in ClientIDs : \A id2 \in ClientIDs :
       (clients[id1] = "nil" /\ clients[id2] = "nil" /\ ~b.isNil) =>
         /\ (id1 \in DOMAIN b.m) <=> (id2 \in DOMAIN b.m)
         /\ (id1 \in DOMAIN b.m /\ id2 \in DOMAIN b.m) => b.m[id1] = b.m[id2]

\* both clients are connected without a projection and Broadcast has a
\* patch with operations for both
C12_Witness ==
  /\ \A id \in ClientIDs : clients[id] = "nil"
  /\ hasPrevi
  /\ DOMAIN Broadcast(S, clients, now).r.m = ClientIDs
  /\ Len(Broadcast(S, clients, now).r.m["c2"]) > 2

\* C13: while a snapshot is held, the result of Broadcast has an entry for
\* an ID exactly when that ID is connected and the patch from its
\* projection of the snapshot to its projection of the derived state has an
\* operation; the entry is that patch.
C13_PresentIffChanged ==
  hasPrevi =>
    LET b == Broadcast(S, clients, now).r
    IN /\ ~b.isNil
       /\ \A id \in ClientIDs :
            LET p == calcDiff(Project(projectionOf(clients, id), previous),
                              Project(projectionOf(clients, id), Derived), arrayCfg)
            IN /\ (id \in DOMAIN b.m) <=> (IsConnected(clients, id) /\ Len(p) > 0)
               /\ (id \in DOMAIN b.m) => DecodePatch(b.m[id]) = p

\* only Secret changed: the client whose projection hides it is omitted,
\* the client without a projection is present, and a third ID is no key
C13_Witness ==
  /\ hasPrevi
  /\ clients["c1"] = "hide" /\ clients["c2"] = "nil"
  /\ previous.Secret # Derived.Secret
  /\ Project("hide", previous) = Project("hide", Derived)
  /\ DOMAIN Broadcast(S, clients, now).r.m = {"c2"}

\* C14: for a client whose projection erases Secret, what Session.Diff and
\* Broadcast produce is the same in any two states that differ only in the
\* Secret of the snapshot and of the base, and no operation of its patch
\* has the path /secret.
C14_NonInterference ==
  \A id \in ClientIDs :
    clients[id] = "hide" =>
      /\ \A x \in Secrets : \A y \in Secrets :
           LET s2 == [S EXCEPT !.previous.Secret = x, !.current.Secret = y]
               b1 == Broadcast(S, clients, now).r
               b2 == Broadcast(s2, clients, now).r
           IN /\ SessionDiff(s2, clients, id, now).r = SessionDiff(S, clients, id, now).r
              /\ b1.isNil = b2.isNil
              /\ (id \in DOMAIN b1.m) <=> (id \in DOMAIN b2.m)
              /\ (id \in DOMAIN b1.m) => b1.m[id] = b2.m[id]
      /\ \A i \in 1..Len(Diff(S, "hide", now).r) :
           Diff(S, "hide", now).r[i].path # <<"/">> \o kSecret

\* the client hiding Secret receives a patch for a change of the items
\* while Secret changed too
C14_Witness ==
  /\ clients["c1"] = "hide"
  /\ hasPrevi
  /\ previous.Secret # Derived.Secret
  /\ "c1" \in DOMAIN Broadcast(S, clients, now).r.m

(***************************************************************************)
(* Properties of the timed effects (WindowSpec)                            *)
(***************************************************************************)
\* the registered TimedEffects whose TimeFunc is nil
NilTimed == {i \in 1..Len(effects) : effects[i].kind = "timed" /\ effects[i].TimeFunc = "nil"}

\* C26: a TimedEffect whose TimeFunc is nil is, whatever its startsAt and
\* expiresAt: active, started, not expired, with Remaining 0 and UntilStart
\* 0; Apply applies its function to every value, and CleanupExpired keeps it
C26_NilTimeFunc ==
  \A i \in NilTimed :
    LET e == effects[i]
    IN /\ Active(e, now) /\ Started(e, now) /\ ~Expired(e, now)
       /\ Remaining(e, now) = 0 /\ UntilStart(e, now) = 0
       /\ \A s \in ValueStates \cup {current} : Apply(e, s, now) = EffectFn(e.fn, s)
       /\ LET kept == CleanupExpired(S, now).s.effects
          IN \E j \in 1..Len(kept) : kept[j] = e

\* CleanupExpired has just removed an effect and left one with a nil
\* TimeFunc whose expiresAt lies in the past and whose startsAt lies in the
\* future
C26_Witness ==
  /\ op = "CleanupExpired"
  /\ \E i \in NilTimed :
       /\ effects[i].expiresAt # 0 /\ now > effects[i].expiresAt
       /\ effects[i].startsAt > now

(***************************************************************************)
(* Properties of persistence (RestoreSpec)                                 *)
(***************************************************************************)
\* the records of the file that Restore has to report: the factory fails,
\* or it makes an effect whose ID an earlier record's effect already has
Restorable(i) == Factory(ret.factory, ret.file.effects[i]).e # NilEffect
FailedRecords ==
  {i \in 1..Len(ret.file.effects) :
     \/ Factory(ret.factory, ret.file.effects[i]).err
     \/ /\ Restorable(i)
        /\ \E j \in 1..(i - 1) : Restorable(j) /\ ret.file.effects[j].ID = ret.file.effects[i].ID}

\* C27: Restore with a factory returns no error whatever the effect records
\* are; effectErrors holds one entry per record whose factory call failed or
\* whose effect had a duplicate ID, in the order of the records; the effects
\* of the other records the factory made an effect for are all registered,
\* in order; a nil effect leaves no entry; the base is the saved base
C27_RestoreNeverAborts ==
  (op = "Restore" /\ ret.factory # "none") =>
    LET metas == ret.file.effects
        records == [i \in 1..Len(metas) |-> i]
        failed == SelectSeq(records, LAMBDA i : i \in FailedRecords)
        made == SelectSeq(records, LAMBDA i : Restorable(i) /\ i \notin FailedRecords)
    IN /\ ~ret.err
       /\ [j \in 1..Len(ret.EffectErrors) |-> ret.EffectErrors[j].ID]
            = [j \in 1..Len(failed) |-> metas[failed[j]].ID]
       /\ effects = [j \in 1..Len(made) |-> Factory(ret.factory, metas[made[j]]).e]
       /\ current = ret.base
       /\ GetBase(S) = ret.base

\* a Restore of a base other than the zero value where the factory failed
\* for the first record and the effect of a later record was registered
C27_Witness ==
  /\ op = "Restore" /\ ret.factory # "none"
  /\ Len(ret.file.effects) >= 2
  /\ Factory(ret.factory, ret.file.effects[1]).err
  /\ Len(effects) = 1
  /\ ret.base.Value # 0

(***************************************************************************)
(* Properties of expiry (ExpirySpec)                                       *)
(***************************************************************************)
\* the last call was a Tick that left the viewer, connected without a
\* projection, with the derived state of that time as its document; since
\* then the clock alone has moved, and an effect that changed the derived
\* state has expired
ExpiredSinceTick ==
  /\ op = "Elapse" /\ ret.before = "Tick"
  /\ clients[Viewer] = "nil"
  /\ doc = Marshal(Get(S, ret.since).r)
  /\ \E i \in 1..Len(effects) :
       /\ effects[i].kind = "timed"
       /\ Active(effects[i], ret.since) /\ Expired(effects[i], now)
  /\ Get(S, ret.since).r # Get(S, now).r

\* C28: when an effect that was active at the viewers' last Tick expires
\* and nothing else happens, the Tick that removes it returns a patch with
\* at least one operation for the viewer without a projection, and the
\* viewer's document is then the derived state without the effect
C28_ExpiryReachesViewers ==
  [][(ExpiredSinceTick /\ op' = "Tick") =>
       /\ ~ret'.isNil
       /\ Viewer \in DOMAIN ret'.m
       /\ ~Empty(DecodePatch(ret'.m[Viewer]))
       /\ Len(effects') = Len(effects) - 1
       /\ doc' = Marshal(Get(Tick(S, clients, now).s, now).r)]_vars

(***************************************************************************)
(* Properties of the stateful effects (StatefulSpec)                       *)
(***************************************************************************)
\* the last call was a mutator of a registered effect, and the derived
\* state is not what it was before that call
EffectMutated ==
  /\ op \in {"Push", "Pop", "Enable", "Disable"}
  /\ ret.before # Derived

\* C29: when a Push, Pop, Enable or Disable on a registered effect has
\* changed the derived state and an Update that leaves the base as it is
\* follows, the patch of the next Diff(nil) is not empty and takes the
\* derived state of before the mutator to the derived state, and the next
\* Tick returns that patch to a viewer connected without a projection
C29_StatefulChangeDetected ==
  [][(EffectMutated /\ op' = "Update" /\ current' = current) =>
       LET u == Update(S, [f |-> "noop", arg |-> 0], now).s
           d == Diff(u, "nil", now).r
           k == Tick(u, clients, now).r
       IN /\ HasChanges(u)
          /\ ~Empty(d)
          /\ ApplyPatch(Marshal(ret.before), d) = Marshal(Get(u, now).r)
          /\ clients[Viewer] = "nil" => (~k.isNil /\ Viewer \in DOMAIN k.m)]_vars

\* the registered effects that are Expirable and report Expired
ExpiredNow == {i \in 1..Len(effects) : Expired(effects[i], now)}

\* C30: a CleanupExpired that finds expired effects removes exactly those,
\* keeps the others in their order and returns the number removed; when no
\* snapshot was held, the snapshot is then the derived state read with the
\* expired effects still in the list, and hasPrevi is set; while the clock
\* stands, one more CleanupExpired returns 0; with nothing expired the call
\* returns 0 and changes nothing
C30_CleanupExact ==
  /\ [][(op' = "CleanupExpired" /\ effects' # effects) =>
          /\ ExpiredNow # {}
          /\ effects' = SelectSeq(effects, LAMBDA e : ~Expired(e, now))
          /\ Len(effects') = Len(effects) - Cardinality(ExpiredNow)
          /\ ret' = Cardinality(ExpiredNow)
          /\ hasPrevi'
          /\ ~hasPrevi => previous' = Get(S, now).r
          /\ current' = current]_vars
  /\ [](op = "CleanupExpired" => CleanupExpired(S, now).r = 0)
  /\ [](ExpiredNow = {} => CleanupExpired(S, now) = [s |-> S, r |-> 0])

\* CleanupExpired has removed two effects at once and kept the third, whose
\* output the snapshot shows
C30_Witness ==
  /\ op = "CleanupExpired" /\ ret = 2
  /\ Len(effects) = 1
  /\ hasPrevi /\ previous # current

(***************************************************************************)
(* Properties of the calls that find nothing to do (NoopSpec)              *)
(***************************************************************************)
\* the call that ran last found nothing to do: RemoveEffect returned false,
\* ClearEffects found the list empty (ret is the length it found),
\* CleanupExpired returned 0
NothingDone ==
  \/ op = "RemoveEffect" /\ ret = FALSE
  \/ op = "ClearEffects" /\ ret = 0
  \/ op = "CleanupExpired" /\ ret = 0

\* C31: a RemoveEffect that returns false, a ClearEffects on an empty list
\* and a CleanupExpired that returns 0 leave the base, the effect list, the
\* snapshot and hasPrevi as they were
C31_NoopCapturesNothing ==
  [][NothingDone' =>
       /\ current' = current /\ GetBase(S)' = GetBase(S)
       /\ effects' = effects
       /\ previous' = previous
       /\ hasPrevi' = hasPrevi]_vars

\* a RemoveEffect for an absent ID has returned false while effects are
\* registered and a snapshot that differs from the derived state is held
C31_Witness ==
  /\ op = "RemoveEffect" /\ ret = FALSE
  /\ Len(effects) > 0
  /\ hasPrevi /\ previous # Derived


(***************************************************************************)
(* Session.Broadcast running beside the calls that change the State.       *)
(* Broadcast holds the Session's read lock from its second statement to    *)
(* its return; HasChanges and every Diff of the loop take the State's lock *)
(* on their own, and Update, Set and AddEffect take the State's lock only. *)
(* So each of them can run between two Diff calls of one Broadcast.  The   *)
(* loop ranges over a map: the clients are visited in any order.           *)
(*   tick.pc      where Broadcast is: "idle", "loop", or "done" on return  *)
(*   tick.todo    the clients the loop has not visited                     *)
(*   tick.res     the result map                                           *)
(*   tick.full    fullDiffComputed, fullDiff and the states it came from   *)
(*   tick.from    for each client in the result, the snapshot and the      *)
(*                derived state its patch was computed from                *)
(*   tick.updates the calls of the other goroutine so far                  *)
(***************************************************************************)
FanoutEffects == {Func("e1", "dbl")}
NotComputed == [computed |-> FALSE, data |-> <<>>, from |-> NoRet]

FanoutInit ==
  /\ NewState(SessionStates, SessionCfgs)
  /\ \E p \in Projections :
       clients = [id \in ClientIDs |-> IF id = Viewer THEN p ELSE "nil"]
  /\ now = 1 /\ doc = Unfollowed
  /\ caps = 0 /\ op = "Connect" /\ ret = NoRet
  /\ iter = 0 /\ calc = Idle
  /\ tick = [pc |-> "idle", todo |-> {}, res |-> NilMap, full |-> NotComputed,
             from |-> <<>>, updates |-> 0, n |-> 0]
  /\ expire = Idle /\ debounce = Idle /\ locks = Idle

\* Broadcast: if !s.state.HasChanges() { return nil }; s.mu.RLock()
FanoutHasChanges ==
  /\ tick.pc \in {"idle", "done"} /\ tick.n < MaxTicks
  /\ tick' = IF HasChanges(S)
               THEN [tick EXCEPT !.pc = "loop", !.n = @ + 1,
                                 !.todo = {id \in ClientIDs : IsConnected(clients, id)},
                                 !.res = [isNil |-> FALSE, m |-> <<>>],
                                 !.full = NotComputed, !.from = <<>>]
               ELSE [tick EXCEPT !.pc = "done", !.n = @ + 1, !.todo = {},
                                 !.res = NilMap, !.full = NotComputed, !.from = <<>>]
  /\ op' = "HasChanges" /\ ret' = HasChanges(S)
  /\ UNCHANGED <<raceRest, doc>>
  /\ UNCHANGED <<current, previous, hasPrevi, effects, arrayCfg>>

\* one iteration of the loop, for a client with a projection:
\* s.state.Diff(project), and the entry of a patch that is not empty
FanoutDiff(id) ==
  /\ tick.pc = "loop" /\ id \in tick.todo /\ clients[id] # "nil"
  /\ LET d == Diff(S, clients[id], now)
         src == [previous |-> previous, current |-> Derived]
     IN /\ tick' = IF Empty(d.r)
                     THEN [tick EXCEPT !.todo = @ \ {id}]
                     ELSE [tick EXCEPT !.todo = @ \ {id},
                                       !.res.m = (id :> PatchJSON(d.r)) @@ @,
                                       !.from = (id :> src) @@ @]
        /\ Install(d.s)
  /\ op' = "Diff" /\ ret' = NoRet
  /\ UNCHANGED <<raceRest, doc>>

\* one iteration for a client without a projection: s.state.Diff(nil) the
\* first time, the cached fullDiff afterwards
FanoutFullDiff(id) ==
  /\ tick.pc = "loop" /\ id \in tick.todo /\ clients[id] = "nil"
  /\ LET d == Diff(S, "nil", now)
         full == IF tick.full.computed THEN tick.full
                 ELSE [computed |-> TRUE, data |-> d.r,
                       from |-> [previous |-> previous, current |-> Derived]]
     IN /\ tick' = IF Empty(full.data)
                     THEN [tick EXCEPT !.todo = @ \ {id}, !.full = full]
                     ELSE [tick EXCEPT !.todo = @ \ {id}, !.full = full,
                                       !.res.m = (id :> PatchJSON(full.data)) @@ @,
                                       !.from = (id :> full.from) @@ @]
        /\ IF tick.full.computed
             THEN UNCHANGED <<current, previous, hasPrevi, effects, arrayCfg>>
             ELSE Install(d.s)
  /\ op' = "Diff" /\ ret' = NoRet
  /\ UNCHANGED <<raceRest, doc>>

\* return result
FanoutReturn ==
  /\ tick.pc = "loop" /\ tick.todo = {}
  /\ tick' = [tick EXCEPT !.pc = "done"]
  /\ op' = "Broadcast" /\ ret' = tick.res
  /\ UNCHANGED <<raceRest, doc>>
  /\ UNCHANGED <<current, previous, hasPrevi, effects, arrayCfg>>

\* the other goroutine: one call that changes the State
Concurrently(name, s) ==
  /\ tick.updates < MaxTicks
  /\ tick' = [tick EXCEPT !.updates = @ + 1]
  /\ op' = name /\ ret' = NoRet
  /\ UNCHANGED <<raceRest, doc>>
  /\ Install(s)

FanoutNext ==
  \/ FanoutHasChanges
  \/ \E id \in ClientIDs : FanoutDiff(id)
  \/ \E id \in ClientIDs : FanoutFullDiff(id)
  \/ FanoutReturn
  \/ \E fn \in SessionFns : Concurrently("Update", Update(S, fn, now).s)
  \/ \E st \in SetStates : Concurrently("Set", Set(S, st, now).s)
  \/ \E e \in FanoutEffects : Concurrently("AddEffect", AddEffect(S, e, now).s)

FanoutSpec == FanoutInit /\ [][FanoutNext]_vars

\* C32: all patches of one Broadcast describe the same transition: under any
\* interleaving with concurrent Update, Set or effect mutations, every patch
\* in the result of one Broadcast is computed from the same previous
\* snapshot and the same current derived state
C32_SameTransition ==
  tick.pc = "done" =>
    \A a, b \in DOMAIN tick.from : tick.from[a] = tick.from[b]


(***************************************************************************)
(* The fan-out of Broadcast with a client whose projection writes into the *)
(* value it is handed.  Diff hands s.previous itself to the projection and *)
(* a fresh clone (withEffects) as the current state.                       *)
(***************************************************************************)
InPlaceInit ==
  /\ NewState(SessionStates, SessionCfgs)
  /\ \E p \in {"nil", "own"} :
       clients = [id \in ClientIDs |-> IF id = Viewer THEN "own" ELSE p]
  /\ now = 1 /\ doc = Unfollowed
  /\ caps = 0 /\ op = "Connect" /\ ret = NoRet
  /\ iter = 0 /\ calc = Idle
  /\ tick = [pc |-> "idle", todo |-> {}, res |-> NilMap, full |-> NotComputed,
             from |-> <<>>, updates |-> 0, n |-> 0]
  /\ expire = Idle /\ debounce = Idle /\ locks = Idle

InPlaceSpec == InPlaceInit /\ [][FanoutNext]_vars

\* C33: Diff and Broadcast are read-only on the snapshot: computing the patch
\* of one viewer, also with a projection that writes into the slices of the
\* value it receives, leaves the stored previous state unchanged
C33_SnapshotReadOnly == [][op' = "Diff" => previous' = previous]_vars

(***************************************************************************)
(* A Session in which every Connect of client Viewer registers the         *)
(* projection that blanks Secret, and what Full and Diff return for each   *)
(* ID at any point of its life: before Connect, while connected and after  *)
(* Disconnect.  Connect and Disconnect hold the Session's lock, Full and   *)
(* Diff its read lock over the map access and the call on the State.       *)
(***************************************************************************)
AskFull(id) ==
  LET f == Full(S, clients, id, now)
  IN /\ op' = "Full" /\ ret' = [id |-> id, bytes |-> f.r]
     /\ UNCHANGED <<diffVars, goVars, clients, now, doc, caps>>
     /\ Install(f.s)

AskDiff(id) ==
  LET d == SessionDiff(S, clients, id, now)
  IN /\ op' = "Diff" /\ ret' = [id |-> id, bytes |-> d.r]
     /\ UNCHANGED <<diffVars, goVars, clients, now, doc, caps>>
     /\ Install(d.s)

ProjectionNext ==
  \/ \E fn \in SessionFns : CallUpdate(fn)
  \/ CallConnect(Viewer, "hide")
  \/ \E id \in ClientIDs \ {Viewer} : CallConnect(id, "nil")
  \/ \E id \in ClientIDs : CallDisconnect(id)
  \/ \E id \in ClientIDs : AskFull(id)
  \/ \E id \in ClientIDs : AskDiff(id)
  \/ CallTick

ProjectionSpec == SessionInit /\ [][ProjectionNext]_vars

\* what Full and Diff return for Viewer when computed through its projection
ThroughProjection ==
  LET cl == Connect(clients, Viewer, "hide")
  IN IF op = "Full" THEN Full(S, cl, Viewer, now).r
     ELSE SessionDiff(S, cl, Viewer, now).r

\* C34: the projection is enforced for the whole life of an ID: when every
\* Connect of an ID registered the projection p, every output of Full and of
\* Diff for that ID is computed through p, also before Connect and after
\* Disconnect
C34_ProjectionEnforced ==
  (op \in {"Full", "Diff"} /\ ret.id = Viewer) => ret.bytes = ThroughProjection

(***************************************************************************)
(* The diff engine on documents that hold JSON null, and Patch.JSON of the *)
(* patch it returns.                                                       *)
(***************************************************************************)
WireValues == {Null, Num(1), Obj(kNested :> Null), Obj(kNested :> Num(1)),
               Arr(<<Null>>), Arr(<<Num(1), Null>>)}
WireDocs ==
  {Obj(v @@ a) : v \in {<<>>} \cup {kValue :> x : x \in WireValues},
                 a \in {<<>>, kItems :> Null}}

WireInit ==
  /\ InitState({ZeroT}, {[Strategy |-> ArrayReplace, KeyField |-> <<>>]}, Unfollowed)
  /\ NoGo
  /\ iter = 0
  /\ \E old \in WireDocs, new \in WireDocs :
     \E cfg \in {[Strategy |-> ArrayReplace, KeyField |-> <<>>],
                 [Strategy |-> ArrayByIndex, KeyField |-> <<>>]} :
          calc = [old |-> old, new |-> new, cfg |-> cfg, phase |-> "args",
                  patch |-> <<>>, doc |-> Null, k |-> 0, again |-> <<>>,
                  bytes |-> <<>>]

\* patch.JSON()
CallJSON ==
  /\ calc # Idle /\ calc.phase = "diffed"
  /\ calc' = [calc EXCEPT !.phase = "json", !.bytes = PatchJSON(calc.patch)]
  /\ UNCHANGED <<stateVars, iter, goVars>>

WireNext ==
  \/ CallDiffMaps
  \/ CallJSON

WireSpec == WireInit /\ [][WireNext]_vars

\* C35: every add and every replace operation of a serialized patch carries
\* a "value" member and every remove omits it, also when the new value is
\* JSON null
C35_ValueMember ==
  (calc # Idle /\ calc.phase = "json") =>
    \A i \in 2..(Len(calc.bytes) - 1) :
      "value" \in DOMAIN calc.bytes[i].o <=> calc.bytes[i].o.op \in {"add", "replace"}

(***************************************************************************)
(* The callbacks of the user.  ScheduleBroadcast without a debounce calls  *)
(* s.onBroadcast(diffs) before its deferred debounceMu.Unlock(); the       *)
(* function of the debounce timer and the function of the expiration timer *)
(* unlock their mutex first.  Each goroutine runs one of the three paths   *)
(* with a callback that makes one call of its own: Tick, ScheduleBroadcast *)
(* (with a debounce set by then), SetDebounce or a mutator of an effect.   *)
(***************************************************************************)
\* SetDebounce and SetBroadcastCallback
pSetDebounce == <<Call("Lock", "debounce"), Call("Unlock", "debounce")>>
\* what a callback calls
CallbackCalls ==
  [Tick |-> pTick, ScheduleBroadcast |-> pScheduleDebounced,
   SetDebounce |-> pSetDebounce, Extend |-> pExtend]
\* the call of the callback itself
Callback(of) == <<Call("callback", of)>>

\* ScheduleBroadcast, s.debounce == 0: Tick and the callback under debounceMu
pScheduleBroadcastCallback(cb) ==
  <<Call("Lock", "debounce")>> \o pTick \o Callback("onBroadcast") \o cb
    \o <<Call("Unlock", "debounce")>>
\* the function ScheduleBroadcast hands to time.AfterFunc
pDebounceFuncCallback(cb) ==
  <<Call("Lock", "debounce"), Call("Unlock", "debounce")>> \o pTick
    \o Callback("onBroadcast") \o cb
\* the function ScheduleExpiration hands to time.AfterFunc
pExpireFuncCallback(cb) ==
  <<Call("Lock", "effect"), Call("Unlock", "effect")>> \o Callback("onExpire") \o cb

CallbackPrograms ==
  UNION {{pScheduleBroadcastCallback(CallbackCalls[c]),
          pDebounceFuncCallback(CallbackCalls[c]),
          pExpireFuncCallback(CallbackCalls[c])} : c \in DOMAIN CallbackCalls}

CallbackInit ==
  /\ InitState({ZeroT}, {[Strategy |-> ArrayReplace, KeyField |-> <<>>]}, Unfollowed)
  /\ iter = 0 /\ calc = Idle /\ tick = Idle /\ expire = Idle /\ debounce = Idle
  /\ locks = [th |-> [g \in {NotBegun} |-> MaxThreads - 1], contended |-> FALSE]

\* a goroutine begins one of the paths
BeginPath(g, prog) ==
  /\ g.pc = 0
  /\ locks' = Step(g, [g EXCEPT !.prog = prog, !.pc = 1])
  /\ UNCHANGED lockRest

\* the callback is entered
LockCallback(g) ==
  /\ AtCall(g, "callback")
  /\ locks' = Step(g, [g EXCEPT !.pc = @ + 1])
  /\ UNCHANGED lockRest

CallbackNext ==
  \/ \E g \in Goroutines : \E prog \in CallbackPrograms : BeginPath(g, prog)
  \/ \E g \in Goroutines : LockAnnounce(g)
  \/ \E g \in Goroutines : LockAcquire(g)
  \/ \E g \in Goroutines : LockRLock(g)
  \/ \E g \in Goroutines : LockUnlock(g)
  \/ \E g \in Goroutines : LockRUnlock(g)
  \/ \E g \in Goroutines : LockCallback(g)

CallbackSpec == CallbackInit /\ [][CallbackNext]_vars
CallbackFairSpec == CallbackSpec /\ WF_vars(CallbackNext)

\* C36: the callbacks of the user (the expiration callback of
\* ScheduleExpiration, the broadcast callback of SetBroadcastCallback) run
\* with no lock of the core held, on the timer paths and on the synchronous
\* path (debounce = 0)
C36_NoLockInCallback ==
  \A g \in Goroutines : AtCall(g, "callback") => g.held = {}

\* a callback that calls Tick, ScheduleBroadcast, SetDebounce or a method
\* of an effect returns
CallbacksReturn == <>AllReturned

(***************************************************************************)
(* ScheduleExpiration on effects of every kind: TimeFunc nil or the clock, *)
(* no expiry (the zero time), an expiry ahead, and, as the clock moves     *)
(* between the calls, an expiry at the time of the call or behind it.      *)
(***************************************************************************)
ScheduleInit ==
  /\ InitState({ZeroT}, {[Strategy |-> ArrayReplace, KeyField |-> <<>>]}, Unfollowed)
  /\ iter = 0 /\ calc = Idle /\ tick = Idle /\ debounce = Idle /\ locks = Idle
  /\ \E at \in {0, 2, 3}, f \in {"nil", "clock"} :
       expire = [pc |-> "idle", handle |-> 0, at |-> at, timeFunc |-> f,
                 clock |-> 1, last |-> 0, timers |-> <<>>]

ScheduleSpec == ScheduleInit /\ [][TimerNext]_vars

\* the effect ScheduleExpiration is called on
Scheduled == TimedEffect("e1", 0, expire.at, expire.timeFunc, "nine")

\* C37: ScheduleExpiration returns false exactly when the effect has no
\* TimeFunc, a zero expiresAt, or is already expired (Expired() is true at the
\* call), and then no timer is left pending; otherwise it returns true and
\* starts a one-shot timer due at expiresAt
C37_ScheduleResult ==
  [][(expire.pc = "ScheduleExpiration" /\ expire'.pc = "idle") =>
       LET refused == \/ expire.timeFunc = "nil" \/ expire.at = 0
                      \/ Expired(Scheduled, expire.clock)
           pending == {k \in 1..Len(expire'.timers) : expire'.timers[k].st = "pending"}
       IN /\ ret' = ~refused
          /\ refused => pending = {}
          /\ ~refused => /\ pending = {Len(expire'.timers)}
                         /\ Len(expire'.timers) = Len(expire.timers) + 1
                         /\ expire'.timers[Len(expire'.timers)].due = expire.at]_vars

(***************************************************************************)
(* The methods of a TimedEffect on windows of every shape, with the clock  *)
(* before the start, at the start, inside the window, at the expiry and    *)
(* past it.  The function of the effect adds one to Value, so a state it   *)
(* was applied to differs from the one it received.                        *)
(***************************************************************************)
ActiveChoices ==
  {TimedEffect("e1", startsAt, expiresAt, timeFunc, "inc") :
     startsAt \in 0..MaxTime, expiresAt \in 0..MaxTime, timeFunc \in {"nil", "clock"}}

\* e.Active(), e.Started(), e.Expired() and e.Apply(s, activator) at one
\* reading of the clock, for a registered effect e and the base s
CallApply ==
  \E i \in 1..Len(effects) :
    /\ op' = "Apply"
    /\ ret' = [effect |-> effects[i], at |-> now, s |-> current,
               out |-> Apply(effects[i], current, now).ret,
               active |-> Active(effects[i], now),
               started |-> Started(effects[i], now),
               expired |-> Expired(effects[i], now)]
    /\ UNCHANGED <<current, previous, hasPrevi, effects, arrayCfg>>
    /\ UNCHANGED <<diffVars, goVars, clients, now, doc, caps>>

ActiveNext ==
  \/ \E e \in ActiveChoices : CallAddEffect(e)
  \/ CallRemoveEffect("e1")
  \/ CallApply
  \/ Advance

ActiveSpec == Init /\ [][ActiveNext]_vars

\* C38: for a TimedEffect with a TimeFunc, Active() is Started() and not
\* Expired(), and Apply applies fn exactly when the effect is active; the
\* effect is inactive when startsAt is set and now < startsAt and when
\* expiresAt is set and now > expiresAt, and active otherwise, so at
\* now = startsAt and at now = expiresAt
C38_ActiveWindow ==
  (op = "Apply" /\ ret.effect.TimeFunc # "nil") =>
    LET e == ret.effect
        early == e.startsAt # 0 /\ ret.at < e.startsAt
        late == e.expiresAt # 0 /\ ret.at > e.expiresAt
    IN /\ ret.active = (ret.started /\ ~ret.expired)
       /\ ret.out = (IF ret.active THEN EffectFn(e.fn, ret.s).ret ELSE ret.s)
       /\ ret.active = ~(early \/ late)

\* Apply ran fn at now = expiresAt, the effect started at an earlier time
C38_Witness ==
  /\ op = "Apply" /\ ret.effect.TimeFunc # "nil"
  /\ ret.at = ret.effect.expiresAt /\ ret.effect.startsAt # 0
  /\ ret.effect.startsAt < ret.at
  /\ ret.active /\ ret.out # ret.s

(***************************************************************************)
(* The diff engine under ByKey on arrays that hold elements without the    *)
(* key: objects that lack the key field and values that are no objects.    *)
(***************************************************************************)
KeylessElems == DiffElems \cup {Obj(kData :> Num(1)), Num(1)}
KeylessArrays == UNION {[1..n -> KeylessElems] : n \in 0..MaxItems}

KeylessInit ==
  /\ InitState({ZeroT}, {[Strategy |-> ArrayReplace, KeyField |-> <<>>]}, Unfollowed)
  /\ NoGo
  /\ iter = 0
  /\ \E old \in KeylessArrays, new \in KeylessArrays :
     \E cfg \in {[Strategy |-> ArrayByKey, KeyField |-> kID],
                 [Strategy |-> ArrayByKey, KeyField |-> <<>>]} :
          calc = [old |-> Obj(kItems :> Arr(old)), new |-> Obj(kItems :> Arr(new)),
                  cfg |-> cfg, phase |-> "args", patch |-> <<>>, doc |-> Null,
                  k |-> 0, again |-> <<>>, bytes |-> <<>>]

KeylessSpec == KeylessInit /\ [][WireNext]_vars

\* the elements of array a that carry the key
Keyed(a) == SelectSeq(a, LAMBDA v : HasKey(v, calc.cfg))
\* an operation on /items without the index in its path
Shape(o) == [o EXCEPT !.path = [SplitPtr(o.path) EXCEPT ![2] = <<"#">>]]
Shapes(p) == [i \in 1..Len(p) |-> Shape(p[i])]
\* the element an operation on /items names by its index: an element of old
\* for the remove of a whole element, an element of new for the others
Target(o) ==
  LET segs == SplitPtr(o.path)
  IN IF o.op = "remove" /\ Len(segs) = 2 THEN oldItems[Atoi(segs[2]) + 1]
     ELSE newItems[Atoi(segs[2]) + 1]

\* C39: under ByKey the elements that are not objects holding the key field
\* are skipped: whether they are in old, in new or in both they cause no
\* remove, add or modify operation and do not change which keyed elements
\* are matched, so the operations are those of the arrays without them; with
\* an empty key field the whole array is one replace
C39_KeylessSkipped ==
  (Diffed /\ oldItems # newItems) =>
    IF calc.cfg.KeyField = <<>>
      THEN calc.patch = <<OpReplace(itemsPath, Arr(newItems))>>
      ELSE /\ Shapes(calc.patch) =
                Shapes(diffArraysByKey(itemsPath, Keyed(oldItems), Keyed(newItems), calc.cfg))
           /\ \A i \in 1..Len(calc.patch) :
                IsIndex(SplitPtr(calc.patch[i].path)[2]) =>
                  HasKey(Target(calc.patch[i]), calc.cfg)

\* keyless elements in old and in new, one of them before a keyed element
\* that is in both arrays and was modified
C39_Witness ==
  /\ Diffed /\ calc.cfg.KeyField = kID
  /\ Len(oldItems) = 2 /\ Len(newItems) = 2
  /\ ~HasKey(oldItems[2], calc.cfg) /\ ~HasKey(newItems[1], calc.cfg)
  /\ HasKey(oldItems[1], calc.cfg) /\ HasKey(newItems[2], calc.cfg)
  /\ Len(calc.patch) = 1 /\ calc.patch[1].op = "replace"
  /\ SplitPtr(calc.patch[1].path) = <<kItems, <<"1">>, kData>>

(***************************************************************************)
(* escapePtr on map keys made of the two characters it rewrites, the       *)
(* digits its escapes end in and a letter; the engine puts the result in a *)
(* path and a client splits the path and unescapes the segment.            *)
(***************************************************************************)
KeyChars == {"~", "/", "0", "1", "a"}
EscapeKeys == UNION {[1..n -> KeyChars] : n \in 0..MaxKey}

EscapeInit ==
  /\ InitState({ZeroT}, {[Strategy |-> ArrayReplace, KeyField |-> <<>>]}, Unfollowed)
  /\ NoGo
  /\ iter = 0
  /\ \E k \in EscapeKeys :
       calc = [key |-> k, phase |-> "args", segment |-> <<>>, segs |-> <<>>]

\* path + "/" + escapePtr(k)
CallEscapePtr ==
  /\ calc # Idle /\ calc.phase = "args"
  /\ calc' = [calc EXCEPT !.phase = "escaped", !.segment = escapePtr(calc.key)]
  /\ UNCHANGED <<stateVars, iter, goVars>>

\* the client splits the path /<segment> and unescapes what it finds
SplitPath ==
  /\ calc # Idle /\ calc.phase = "escaped"
  /\ calc' = [calc EXCEPT !.phase = "split",
                          !.segs = SplitPtr(<<"/">> \o calc.segment)]
  /\ UNCHANGED <<stateVars, iter, goVars>>

EscapeNext ==
  \/ CallEscapePtr
  \/ SplitPath

EscapeSpec == EscapeInit /\ [][EscapeNext]_vars

\* C40: escapePtr is reversible: it writes ~0 for ~ and ~1 for /, its output
\* holds no /, unescaping it gives the key back, and so two keys that differ
\* give segments that differ
C40_EscapeReversible ==
  (calc # Idle /\ calc.phase # "args") =>
    /\ \A i \in 1..Len(calc.segment) : calc.segment[i] # "/"
    /\ Len(calc.segment) =
         Len(calc.key) + Cardinality({i \in 1..Len(calc.key) : calc.key[i] \in {"~", "/"}})
    /\ unescapePtr(calc.segment) = calc.key
    /\ \A k \in EscapeKeys : escapePtr(k) = calc.segment => k = calc.key
    /\ calc.phase = "split" => calc.segs = <<calc.key>>

\* a key that holds / and the text of an escape, ~1, came back from the path
C40_Witness ==
  /\ calc # Idle /\ calc.phase = "split"
  /\ calc.key = <<"~", "1", "/">>
  /\ calc.segment = <<"~", "0", "1", "~", "1">>
  /\ calc.segs = <<calc.key>>

====
